---- MODULE Spec2Model ----
(***************************************************************************)
(* A model of kvile's request-file parser (src-tauri/src/parser):          *)
(* detect_format, parse_http_content, parse_jetbrains, parse_vscode and     *)
(* substitute_variables; of the cURL import (curl.rs: parse_curl and        *)
(* curl_to_http); of the OIDC callback server (oidc.rs, commands.rs); and   *)
(* of the file watcher (watcher.rs).                                        *)
(*                                                                         *)
(* A string is a sequence of one-character strings, so that trimming,      *)
(* prefix tests and the regular expressions of the source are computed on  *)
(* characters.  A document is the sequence of its lines, i.e. the value of *)
(* content.lines().                                                        *)
(***************************************************************************)
EXTENDS Naturals, Integers, Sequences, FiniteSets, TLC

VARIABLES
    content,          \* the document handed to the parser: content.lines()
    entry,            \* the entry point that was called
    format,           \* detect_format's answer ("none" before it ran)
    pc,               \* start | jetbrains | vscode | done | idle
    idx,              \* 0-based line cursor of the running parser
    current_request,  \* Option<ParsedRequest>
    in_body,          \* body-capture flag
    body_lines,       \* body buffer (raw lines)
    file_variables,   \* document-wide variable table
    requests,         \* output sequence
    result,           \* "none" | "Ok" | "panic"
    calls,            \* number of parser calls made so far
    earlier,          \* the calls that returned: entry, document, result
    curl_cmd,         \* the CurlCommand handed to curl_to_http
    sv_pc,            \* substitute_variables: idle | start | scan | done
    sv_input,         \* input of the running call
    sv_vars,          \* the variable table
    sv_pos,           \* 1-based cursor of replace_all in sv_input
    sv_out,           \* output built so far
    sv_call,          \* 1 for the first call, 2 for the call on its result
    sv_first,         \* input of the first call
    curl_command,     \* parse_curl: its input
    tokens,           \* parse_curl: the tokens of the command line
    curl_result,      \* parse_curl: "none" | "Ok" | the error it returned
    oidc_pc,          \* oidc_wait_for_callback: idle | bind | accept | read |
                      \*   handle | respond | returned | done
    redirect_url,     \* the redirect_url argument, as Url::parse sees it
    expected_state,   \* the expected_state argument
    request_line,     \* the request line read from the callback connection
    server_result,    \* what start_callback_server returned
    wait_result,      \* what oidc_wait_for_callback returned
    WATCHER,          \* static WATCHER: Option<WatcherState>
    sw_pc,            \* the command thread: idle | create | watch | spawn |
                      \*   store
    directory,        \* the directory argument of the running start_watching
    watcher,          \* the local `watcher` of the running start_watching
                      \*   (0: none)
    senders,          \* the watchers that exist: their closures own a sender
    channel,          \* per watcher, the events sent and not yet received
    threads,          \* per watcher, its event thread: none | running | exited
    emitted,          \* the directories `file-changed` was emitted for
    returned,         \* what the last command returned
    observed          \* what the last get_watched_path returned

parseVars == <<content, entry, format, pc, idx, current_request, in_body,
               body_lines, file_variables, requests, result, calls, earlier,
               curl_cmd>>
substVars == <<sv_pc, sv_input, sv_vars, sv_pos, sv_out, sv_call, sv_first>>
tokenVars == <<curl_command, tokens, curl_result>>
oidcVars == <<oidc_pc, redirect_url, expected_state, request_line,
              server_result, wait_result>>
watchVars == <<WATCHER, sw_pc, directory, watcher, senders, channel, threads,
               emitted, returned, observed>>
sideVars == <<tokenVars, oidcVars, watchVars>>
vars == <<content, entry, format, pc, idx, current_request, in_body,
          body_lines, file_variables, requests, result, calls, earlier,
          curl_cmd, sv_pc, sv_input, sv_vars, sv_pos, sv_out, sv_call, sv_first,
          curl_command, tokens, curl_result, oidc_pc, redirect_url, expected_state,
          request_line, server_result, wait_result, WATCHER, sw_pc, directory,
          watcher, senders, channel, threads, emitted, returned, observed>>

----------------------------------------------------------------------------
(* Bounds of the model.                                                    *)

MaxLines == 3
MaxBodyLines == 3
MaxDetectLines == 2
MaxSectionLines == 5
MaxTokens == 3
MaxScriptLines == 2
MaxHeaderLines == 3
MaxCalls == 3
MaxRuleLines == 2
MaxPlainLines == 3
MaxNoteLines == 3
MaxNoteBodyLines == 2
MaxParams == 3
MaxWatches == 2
MaxEvents == 1
MaxCurlTokens == 5

----------------------------------------------------------------------------
(* Characters and strings.                                                 *)

Min(S) == CHOOSE x \in S : \A y \in S : x <= y
Max(S) == CHOOSE x \in S : \A y \in S : x >= y

\* char::is_whitespace, restricted to the characters a line or body can hold
Whitespace == {" ", "\t", "\n", "\r"}

Digits == {"0", "1", "2", "3", "4", "5", "6", "7", "8", "9"}

\* the regex class \w
WordChars ==
    {"a", "b", "c", "d", "e", "f", "g", "h", "i", "j", "k", "l", "m",
     "n", "o", "p", "q", "r", "s", "t", "u", "v", "w", "x", "y", "z",
     "A", "B", "C", "D", "E", "F", "G", "H", "I", "J", "K", "L", "M",
     "N", "O", "P", "Q", "R", "S", "T", "U", "V", "W", "X", "Y", "Z",
     "_"} \cup Digits

\* [\w-]
KeyChars == WordChars \cup {"-"}

\* [\w.-]
PlaceholderChars == WordChars \cup {".", "-"}

\* [\d.]
VersionChars == Digits \cup {"."}

\* str::trim
Trim(s) ==
    LET I == {i \in 1..Len(s) : s[i] \notin Whitespace}
    IN IF I = {} THEN <<>> ELSE SubSeq(s, Min(I), Max(I))

\* str::trim_start
TrimStart(s) ==
    LET I == {i \in 1..Len(s) : s[i] \notin Whitespace}
    IN IF I = {} THEN <<>> ELSE SubSeq(s, Min(I), Len(s))

\* str::starts_with
StartsWith(s, p) == Len(s) >= Len(p) /\ SubSeq(s, 1, Len(p)) = p

\* str::ends_with
EndsWith(s, p) ==
    Len(s) >= Len(p) /\ SubSeq(s, Len(s) - Len(p) + 1, Len(s)) = p

\* the text from position i on
From(s, i) == SubSeq(s, i, Len(s))

\* length of the longest run of characters of C that starts at position i
RunLen(s, i, C) ==
    LET stop == {j \in i..Len(s) : s[j] \notin C}
    IN IF stop = {} THEN Len(s) - i + 1 ELSE Min(stop) - i

\* str::trim_end_matches(p): p removed from the end as often as it occurs
RECURSIVE TrimEndMatches(_, _)
TrimEndMatches(s, p) ==
    IF Len(p) > 0 /\ EndsWith(s, p)
    THEN TrimEndMatches(SubSeq(s, 1, Len(s) - Len(p)), p)
    ELSE s

\* [String]::join("\n")
RECURSIVE JoinLines(_)
JoinLines(ls) ==
    IF ls = <<>> THEN <<>>
    ELSE IF Len(ls) = 1 THEN ls[1]
    ELSE ls[1] \o <<"\n">> \o JoinLines(Tail(ls))

----------------------------------------------------------------------------
(* Option and HashMap values.                                              *)

None == [some |-> FALSE, val |-> <<>>]
Some(v) == [some |-> TRUE, val |-> v]

EmptyMap == [k \in {} |-> <<>>]

\* an insert that keeps the value a key already has
MapInsertKeepFirst(m, key, value) ==
    [k \in (DOMAIN m) \cup {key} |-> IF k \in DOMAIN m THEN m[k] ELSE value]

\* HashMap::insert
MapInsert(m, key, value) ==
    [k \in (DOMAIN m) \cup {key} |-> IF k = key THEN value ELSE m[k]]

\* for (k, v) in &n { m.insert(k.clone(), v.clone()); }
MapMerge(m, n) ==
    [k \in (DOMAIN m) \cup (DOMAIN n) |-> IF k \in DOMAIN n THEN n[k] ELSE m[k]]

----------------------------------------------------------------------------
(* ParsedRequest.                                                          *)

NewRequest ==
    [name |-> None,
     method |-> <<"G", "E", "T">>,
     url |-> <<>>,
     http_version |-> None,
     headers |-> EmptyMap,
     body |-> None,
     line_number |-> 0,
     variables |-> EmptyMap,
     metadata |-> EmptyMap,
     pre_script |-> None,
     post_script |-> None]

NoRequest == [some |-> FALSE, req |-> NewRequest]
SomeRequest(r) == [some |-> TRUE, req |-> r]

----------------------------------------------------------------------------
(* The regular expressions of the parsers, matched against a trimmed line. *)

Methods ==
    {<<"G", "E", "T">>, <<"P", "O", "S", "T">>, <<"P", "U", "T">>,
     <<"D", "E", "L", "E", "T", "E">>, <<"P", "A", "T", "C", "H">>,
     <<"H", "E", "A", "D">>, <<"O", "P", "T", "I", "O", "N", "S">>,
     <<"T", "R", "A", "C", "E">>, <<"C", "O", "N", "N", "E", "C", "T">>}

NoMatch == [matched |-> FALSE]

\* ^###\s*(.*)$
separator_re(t) ==
    IF StartsWith(t, <<"#", "#", "#">>)
    THEN [matched |-> TRUE, g1 |-> TrimStart(From(t, 4))]
    ELSE NoMatch

\* one alternative of the verb group followed by \s+(.+?)(?:\s+(HTTP/[\d.]+))?$
MethodRest(t, verb) ==
    LET ws == RunLen(t, Len(verb) + 1, Whitespace)
        rest == From(t, Len(verb) + ws + 1)
        n == Len(rest)
        \* the places where \s+(HTTP/[\d.]+)$ can start, leaving a url before it
        cuts == {k \in 2..n :
                    /\ rest[k] \in Whitespace
                    /\ LET w == RunLen(rest, k, Whitespace)
                           v == From(rest, k + w)
                       IN /\ StartsWith(v, <<"H", "T", "T", "P", "/">>)
                          /\ Len(v) > 5
                          /\ RunLen(v, 6, VersionChars) = Len(v) - 5}
    IN IF ~StartsWith(t, verb) \/ ws = 0 \/ n = 0 THEN NoMatch
       ELSE IF cuts = {}
            THEN [matched |-> TRUE, g1 |-> verb, g2 |-> rest, g3 |-> None]
            ELSE LET k == Min(cuts)
                 IN [matched |-> TRUE, g1 |-> verb,
                     g2 |-> SubSeq(rest, 1, k - 1),
                     g3 |-> Some(From(rest, k + RunLen(rest, k, Whitespace)))]

\* a verb group that lacks TRACE and CONNECT
method_re_short(t) ==
    LET known == Methods \ {<<"T", "R", "A", "C", "E">>,
                            <<"C", "O", "N", "N", "E", "C", "T">>}
        hits == {v \in known : MethodRest(t, v).matched}
    IN IF hits = {} THEN NoMatch ELSE MethodRest(t, CHOOSE v \in hits : TRUE)

\* ^(GET|POST|PUT|DELETE|PATCH|HEAD|OPTIONS|TRACE|CONNECT)\s+(.+?)(?:\s+(HTTP/[\d.]+))?$
method_re(t) ==
    LET hits == {v \in Methods : MethodRest(t, v).matched}
    IN IF hits = {} THEN NoMatch ELSE MethodRest(t, CHOOSE v \in hits : TRUE)

\* a header pattern whose value keeps the whitespace after the colon
header_re_whole_value(t) ==
    LET k == RunLen(t, 1, KeyChars)
    IN IF k > 0 /\ Len(t) > k /\ t[k + 1] = ":"
       THEN [matched |-> TRUE, g1 |-> SubSeq(t, 1, k), g2 |-> From(t, k + 2)]
       ELSE NoMatch

\* ^([\w-]+):\s*(.*)$
header_re(t) ==
    LET k == RunLen(t, 1, KeyChars)
    IN IF k > 0 /\ Len(t) > k /\ t[k + 1] = ":"
       THEN [matched |-> TRUE, g1 |-> SubSeq(t, 1, k),
             g2 |-> TrimStart(From(t, k + 2))]
       ELSE NoMatch

\* ^(?:#|//)
comment_re(t) == StartsWith(t, <<"#">>) \/ StartsWith(t, <<"/", "/">>)

\* ^#\s*@([\w-]+)\s+(.*)$
metadata_re(t) ==
    IF ~StartsWith(t, <<"#">>) THEN NoMatch
    ELSE LET a == 2 + RunLen(t, 2, Whitespace)       \* where "@" must stand
             k == RunLen(t, a + 1, KeyChars)
             w == RunLen(t, a + 1 + k, Whitespace)
         IN IF a <= Len(t) /\ t[a] = "@" /\ k > 0 /\ w > 0
            THEN [matched |-> TRUE, g1 |-> SubSeq(t, a + 1, a + k),
                  g2 |-> From(t, a + 1 + k + w)]
            ELSE NoMatch

\* ^<\s*\{%
pre_script_re(t) ==
    /\ StartsWith(t, <<"<">>)
    /\ StartsWith(From(t, 2 + RunLen(t, 2, Whitespace)), <<"{", "%">>)

\* ^>\s*\{%
post_script_re(t) ==
    /\ StartsWith(t, <<">">>)
    /\ StartsWith(From(t, 2 + RunLen(t, 2, Whitespace)), <<"{", "%">>)

\* ^@([\w-]+)\s*=\s*(.*)$
vscode_var_re(t) ==
    IF ~StartsWith(t, <<"@">>) THEN NoMatch
    ELSE LET k == RunLen(t, 2, KeyChars)
             e == 2 + k + RunLen(t, 2 + k, Whitespace)   \* where "=" must stand
         IN IF k > 0 /\ e <= Len(t) /\ t[e] = "="
            THEN [matched |-> TRUE, g1 |-> SubSeq(t, 2, k + 1),
                  g2 |-> TrimStart(From(t, e + 1))]
            ELSE NoMatch

\* trimmed.starts_with("http://") || starts_with("https://") || starts_with('/')
IsBareUrl(t) ==
    \/ StartsWith(t, <<"h", "t", "t", "p", ":", "/", "/">>)
    \/ StartsWith(t, <<"h", "t", "t", "p", "s", ":", "/", "/">>)
    \/ StartsWith(t, <<"/">>)

----------------------------------------------------------------------------
(* parse_jetbrains.                                                        *)

NoScript == [found |-> FALSE, script |-> <<>>, end_idx |-> 0]

\* an extraction that trims the lines of the block
ExtractScriptBlockTrimmed(lines, start_idx) ==
    LET T(i) == Trim(lines[i + 1])
        IsEnd(i) == EndsWith(T(i), <<"%", "}">>)
        IsSep(i) == StartsWith(T(i), <<"#", "#", "#">>)
        stops == {i \in (start_idx + 1)..(Len(lines) - 1) : IsEnd(i) \/ IsSep(i)}
    IN IF stops = {} THEN NoScript
       ELSE LET e == Min(stops)
                inner == [i \in 1..(e - start_idx - 1) |-> T(start_idx + i)]
                last == Trim(TrimEndMatches(T(e), <<"%", "}">>))
            IN IF IsEnd(e)
               THEN [found |-> TRUE,
                     script |-> JoinLines(IF last = <<>> THEN inner
                                          ELSE Append(inner, last)),
                     end_idx |-> e]
               ELSE NoScript

\* an extraction that hands the cursor back on the first line of the block
ExtractScriptBlockNotSkipped(lines, start_idx) ==
    LET T(i) == Trim(lines[i + 1])
        IsEnd(i) == EndsWith(T(i), <<"%", "}">>)
        IsSep(i) == StartsWith(T(i), <<"#", "#", "#">>)
        stops == {i \in (start_idx + 1)..(Len(lines) - 1) : IsEnd(i) \/ IsSep(i)}
    IN IF stops = {} THEN NoScript
       ELSE LET e == Min(stops)
                inner == SubSeq(lines, start_idx + 2, e)
                last == Trim(TrimEndMatches(T(e), <<"%", "}">>))
            IN IF IsEnd(e)
               THEN [found |-> TRUE,
                     script |-> JoinLines(IF last = <<>> THEN inner
                                          ELSE Append(inner, last)),
                     end_idx |-> start_idx]
               ELSE NoScript

\* an extraction that looks for the closing line beyond a separator
ExtractScriptBlockPastSeparator(lines, start_idx) ==
    LET T(i) == Trim(lines[i + 1])
        IsEnd(i) == EndsWith(T(i), <<"%", "}">>)
        stops == {i \in (start_idx + 1)..(Len(lines) - 1) : IsEnd(i)}
    IN IF stops = {} THEN NoScript
       ELSE LET e == Min(stops)
                inner == SubSeq(lines, start_idx + 2, e)
                last == Trim(TrimEndMatches(T(e), <<"%", "}">>))
            IN [found |-> TRUE,
                script |-> JoinLines(IF last = <<>> THEN inner
                                     ELSE Append(inner, last)),
                end_idx |-> e]

\* an extraction that takes the end of input for a closing line
ExtractScriptBlockAtEnd(lines, start_idx) ==
    LET T(i) == Trim(lines[i + 1])
        IsEnd(i) == EndsWith(T(i), <<"%", "}">>)
        IsSep(i) == StartsWith(T(i), <<"#", "#", "#">>)
        stops == {i \in (start_idx + 1)..(Len(lines) - 1) : IsEnd(i) \/ IsSep(i)}
    IN IF stops = {}
       THEN [found |-> TRUE,
             script |-> JoinLines(SubSeq(lines, start_idx + 2, Len(lines))),
             end_idx |-> Len(lines) - 1]
       ELSE LET e == Min(stops)
                inner == SubSeq(lines, start_idx + 2, e)
                last == Trim(TrimEndMatches(T(e), <<"%", "}">>))
            IN IF IsEnd(e)
               THEN [found |-> TRUE,
                     script |-> JoinLines(IF last = <<>> THEN inner
                                          ELSE Append(inner, last)),
                     end_idx |-> e]
               ELSE NoScript

\* an extraction that hands the cursor back on the closing line
ExtractScriptBlockBeforeCloser(lines, start_idx) ==
    LET T(i) == Trim(lines[i + 1])
        IsEnd(i) == EndsWith(T(i), <<"%", "}">>)
        IsSep(i) == StartsWith(T(i), <<"#", "#", "#">>)
        stops == {i \in (start_idx + 1)..(Len(lines) - 1) : IsEnd(i) \/ IsSep(i)}
    IN IF stops = {} THEN NoScript
       ELSE LET e == Min(stops)
                inner == SubSeq(lines, start_idx + 2, e)
                last == Trim(TrimEndMatches(T(e), <<"%", "}">>))
            IN IF IsEnd(e)
               THEN [found |-> TRUE,
                     script |-> JoinLines(IF last = <<>> THEN inner
                                          ELSE Append(inner, last)),
                     end_idx |-> e - 1]
               ELSE NoScript

\* extract_script_block(lines, start_idx); indices are 0-based as in the source
ExtractScriptBlock(lines, start_idx) ==
    LET T(i) == Trim(lines[i + 1])
        IsEnd(i) == EndsWith(T(i), <<"%", "}">>)
        IsSep(i) == StartsWith(T(i), <<"#", "#", "#">>)
        stops == {i \in (start_idx + 1)..(Len(lines) - 1) : IsEnd(i) \/ IsSep(i)}
    IN IF stops = {} THEN NoScript
       ELSE LET e == Min(stops)
                inner == SubSeq(lines, start_idx + 2, e)
                last == Trim(TrimEndMatches(T(e), <<"%", "}">>))
            IN IF IsEnd(e)
               THEN [found |-> TRUE,
                     script |-> JoinLines(IF last = <<>> THEN inner
                                          ELSE Append(inner, last)),
                     end_idx |-> e]
               ELSE NoScript

\* a finalisation that forgets the url test
ShouldEmitAlways(req) == TRUE

\* if !req.url.is_empty() { requests.push(req); }
ShouldEmit(req) == req.url # <<>>

\* a body whose lines are trimmed one by one before they are joined
BodyOfTrimmedLines(blines) ==
    Some(Trim(JoinLines([i \in 1..Len(blines) |-> Trim(blines[i])])))

\* a body that is joined but not trimmed
BodyOfUntrimmed(blines) == Some(JoinLines(blines))

\* req.body = Some(body_lines.join("\n").trim().to_string())
BodyOf(blines) == Some(Trim(JoinLines(blines)))

\* a finalisation that pushes the request twice
JbFinalizeTwice(cur, inb, blines, fvars, reqs) ==
    IF ~cur.some \/ cur.req.url = <<>> THEN reqs
    ELSE LET r == [cur.req EXCEPT !.variables = MapMerge(@, fvars)]
         IN Append(Append(reqs, r), r)

\* a finalisation that puts the request in front of the output
JbFinalizeInFront(cur, inb, blines, fvars, reqs) ==
    IF ~cur.some \/ cur.req.url = <<>> THEN reqs
    ELSE <<[cur.req EXCEPT !.variables = MapMerge(@, fvars)]>> \o reqs

\* the block that saves the previous request (at a separator and at the end)
JbFinalize(cur, inb, blines, fvars, reqs) ==
    IF ~cur.some THEN reqs
    ELSE LET r1 == IF inb /\ blines # <<>>
                   THEN [cur.req EXCEPT !.body = BodyOf(blines)]
                   ELSE cur.req
             r2 == [r1 EXCEPT !.variables = MapMerge(r1.variables, fvars)]
         IN IF ShouldEmit(r2) THEN Append(reqs, r2) ELSE reqs

\* a separator that always names the request it starts
SeparatorNameAlways(g1) == Some(Trim(g1))

\* the name a separator gives the request it starts
SeparatorName(g1) == IF Trim(g1) # <<>> THEN Some(Trim(g1)) ELSE None

\* a request that is created without its line number
StartedUnnumbered(cur, line_no) ==
    IF cur.some THEN cur ELSE SomeRequest(NewRequest)

\* a parser that forgets to create the request
StartedNever(cur, line_no) == cur

\* a request that is created with the number of the line after its own
StartedOnNextLine(cur, line_no) ==
    IF cur.some THEN cur
    ELSE SomeRequest([NewRequest EXCEPT !.line_number = line_no + 1])

\* Some(ParsedRequest::new()) with line_number set, when no request is active
Started(cur, line_no) ==
    IF cur.some THEN cur
    ELSE SomeRequest([NewRequest EXCEPT !.line_number = line_no])

\* the classification of a line once a request is active and not in body mode
JbHeaderSection(S, trimmed, cur) ==
    LET next == [S EXCEPT !.idx = S.idx + 1, !.cur = cur]
        md == metadata_re(trimmed)
        vd == vscode_var_re(trimmed)
        ml == method_re(trimmed)
        hd == header_re(trimmed)
    IN IF md.matched
       THEN [next EXCEPT !.cur.req.metadata = MapInsert(@, md.g1, md.g2)]
       ELSE IF comment_re(trimmed) THEN next
       ELSE IF vd.matched
       THEN [next EXCEPT !.fvars = MapInsert(@, vd.g1, vd.g2)]
       ELSE IF ml.matched
       THEN [next EXCEPT !.cur.req.method = ml.g1,
                         !.cur.req.url = ml.g2,
                         !.cur.req.http_version =
                             IF ml.g3.some THEN ml.g3 ELSE @]
       ELSE IF hd.matched
       THEN [next EXCEPT !.cur.req.headers = MapInsert(@, hd.g1, hd.g2)]
       ELSE IF trimmed = <<>> /\ cur.req.url # <<>>
       THEN [next EXCEPT !.inb = TRUE]
       ELSE IF cur.req.url = <<>> /\ IsBareUrl(trimmed)
       THEN [next EXCEPT !.cur.req.url = trimmed]
       ELSE next

\* one iteration of the while loop of parse_jetbrains on lines[S.idx]
JbLineStep(lines, S) ==
    LET line == lines[S.idx + 1]
        line_no == S.idx + 1
        trimmed == Trim(line)
        block == ExtractScriptBlock(lines, S.idx)
        sep == separator_re(trimmed)
    IN IF pre_script_re(trimmed) /\ block.found
       THEN [S EXCEPT !.cur = [Started(S.cur, line_no) EXCEPT
                                   !.req.pre_script = Some(block.script)],
                      !.idx = block.end_idx + 1]
       ELSE IF post_script_re(trimmed) /\ block.found
       THEN [S EXCEPT !.cur = IF S.cur.some
                              THEN [S.cur EXCEPT
                                       !.req.post_script = Some(block.script)]
                              ELSE S.cur,
                      !.inb = FALSE,
                      !.idx = block.end_idx + 1]
       ELSE IF sep.matched
       THEN [S EXCEPT !.reqs = JbFinalize(S.cur, S.inb, S.blines, S.fvars, S.reqs),
                      !.cur = SomeRequest([NewRequest EXCEPT
                                              !.line_number = line_no,
                                              !.name = SeparatorName(sep.g1)]),
                      !.inb = FALSE,
                      !.blines = <<>>,
                      !.idx = S.idx + 1]
       ELSE IF ~S.cur.some /\ trimmed = <<>>
       THEN [S EXCEPT !.idx = S.idx + 1]
       ELSE LET cur == Started(S.cur, line_no)
            IN IF ~cur.some
               THEN [S EXCEPT !.panic = TRUE]   \* current_request.as_mut().unwrap()
               ELSE IF S.inb
               THEN \* a post-script opener was handled above: body text
                    [S EXCEPT !.cur = cur,
                              !.blines = Append(S.blines, line),
                              !.idx = S.idx + 1]
               ELSE JbHeaderSection(S, trimmed, cur)

----------------------------------------------------------------------------
(* parse_vscode.                                                           *)

\* a finalisation of parse_vscode that never stores the body
VsFinalizeWithoutBody(cur, inb, blines, fvars, reqs) ==
    IF ~cur.some \/ cur.req.url = <<>> THEN reqs
    ELSE Append(reqs, [cur.req EXCEPT !.variables = fvars])

\* the block that saves the previous request (at a separator and at the end)
VsFinalize(cur, inb, blines, fvars, reqs) ==
    IF ~cur.some THEN reqs
    ELSE LET r1 == IF inb /\ blines # <<>>
                   THEN [cur.req EXCEPT !.body = BodyOf(blines)]
                   ELSE cur.req
         IN IF ShouldEmit(r1)
            THEN Append(reqs, [r1 EXCEPT !.variables = fvars])
            ELSE reqs

\* a header section of parse_vscode without the comment rule
VsHeaderSectionNoComments(S, trimmed, cur) ==
    LET next == [S EXCEPT !.idx = S.idx + 1, !.cur = cur]
        ml == method_re(trimmed)
        hd == header_re(trimmed)
    IN IF ml.matched
       THEN [next EXCEPT !.cur.req.method = ml.g1,
                         !.cur.req.url = ml.g2,
                         !.cur.req.http_version =
                             IF ml.g3.some THEN ml.g3 ELSE @]
       ELSE IF hd.matched
       THEN [next EXCEPT !.cur.req.headers = MapInsert(@, hd.g1, hd.g2)]
       ELSE IF trimmed = <<>> /\ cur.req.url # <<>>
       THEN [next EXCEPT !.inb = TRUE]
       ELSE IF cur.req.url = <<>> /\ IsBareUrl(trimmed)
       THEN [next EXCEPT !.cur.req.url = trimmed]
       ELSE next

\* the classification of a line once a request is active and not in body mode
VsHeaderSection(S, trimmed, cur) ==
    LET next == [S EXCEPT !.idx = S.idx + 1, !.cur = cur]
        ml == method_re(trimmed)
        hd == header_re(trimmed)
    IN IF comment_re(trimmed) THEN next
       ELSE IF ml.matched
       THEN [next EXCEPT !.cur.req.method = ml.g1,
                         !.cur.req.url = ml.g2,
                         !.cur.req.http_version =
                             IF ml.g3.some THEN ml.g3 ELSE @]
       ELSE IF hd.matched
       THEN [next EXCEPT !.cur.req.headers = MapInsert(@, hd.g1, hd.g2)]
       ELSE IF trimmed = <<>> /\ cur.req.url # <<>>
       THEN [next EXCEPT !.inb = TRUE]
       ELSE IF cur.req.url = <<>> /\ IsBareUrl(trimmed)
       THEN [next EXCEPT !.cur.req.url = trimmed]
       ELSE next

\* one iteration of the for loop of parse_vscode on lines[S.idx]
VsLineStep(lines, S) ==
    LET line == lines[S.idx + 1]
        line_no == S.idx + 1
        trimmed == Trim(line)
        vd == vscode_var_re(trimmed)
        sep == separator_re(trimmed)
        next == [S EXCEPT !.idx = S.idx + 1]
    IN IF vd.matched
       THEN [next EXCEPT !.fvars = MapInsert(@, vd.g1, vd.g2)]
       ELSE IF sep.matched
       THEN [next EXCEPT
                !.reqs = VsFinalize(S.cur, S.inb, S.blines, S.fvars, S.reqs),
                !.cur = SomeRequest([NewRequest EXCEPT
                                        !.line_number = line_no,
                                        !.name = SeparatorName(sep.g1)]),
                !.inb = FALSE,
                !.blines = <<>>]
       ELSE IF ~S.cur.some /\ trimmed = <<>> THEN next
       ELSE IF ~S.cur.some /\ comment_re(trimmed) THEN next
       ELSE LET cur == Started(S.cur, line_no)
            IN IF ~cur.some
               THEN [S EXCEPT !.panic = TRUE]   \* current_request.as_mut().unwrap()
               ELSE IF S.inb
               THEN [next EXCEPT !.cur = cur,
                                 !.blines = Append(S.blines, line)]
               ELSE VsHeaderSection(S, trimmed, cur)

----------------------------------------------------------------------------
(* The parsers as functions of the document.                               *)

\* the locals as the prologue of a parser declares them
FreshLocals ==
    [idx |-> 0, cur |-> NoRequest, inb |-> FALSE, blines |-> <<>>,
     fvars |-> EmptyMap, reqs |-> <<>>, panic |-> FALSE]

RECURSIVE JbLoop(_, _)
\* the while loop of parse_jetbrains and the block after it
JbLoop(lines, S) ==
    IF S.panic THEN S.reqs
    ELSE IF S.idx < Len(lines) THEN JbLoop(lines, JbLineStep(lines, S))
    ELSE JbFinalize(S.cur, S.inb, S.blines, S.fvars, S.reqs)

\* parse_jetbrains(content)
parse_jetbrains(lines) == JbLoop(lines, FreshLocals)

RECURSIVE VsLoop(_, _)
\* the for loop of parse_vscode and the block after it
VsLoop(lines, S) ==
    IF S.panic THEN S.reqs
    ELSE IF S.idx < Len(lines) THEN VsLoop(lines, VsLineStep(lines, S))
    ELSE VsFinalize(S.cur, S.inb, S.blines, S.fvars, S.reqs)

\* parse_vscode(content)
parse_vscode(lines) == VsLoop(lines, FreshLocals)

----------------------------------------------------------------------------
(* detect_format and parse_http_content.                                   *)

\* trimmed.starts_with("< {%") || trimmed.starts_with("> {%")
IsScriptOpener(t) ==
    \/ StartsWith(t, <<"<", " ", "{", "%">>)
    \/ StartsWith(t, <<">", " ", "{", "%">>)

\* ^@[\w-]+\s*=
IsVarDefinition(t) == vscode_var_re(t).matched

RECURSIVE has_scripts(_)
\* content.lines().any(|line| { let trimmed = line.trim(); ... })
has_scripts(lines) ==
    IF lines = <<>> THEN FALSE
    ELSE IF IsScriptOpener(Trim(Head(lines))) THEN TRUE
    ELSE has_scripts(Tail(lines))

RECURSIVE has_vscode_vars(_)
\* content.lines().any(|line| vscode_var_re.is_match(line.trim()))
has_vscode_vars(lines) ==
    IF lines = <<>> THEN FALSE
    ELSE IF IsVarDefinition(Trim(Head(lines))) THEN TRUE
    ELSE has_vscode_vars(Tail(lines))

\* a detector that looks for variable definitions first
detect_format_vars_first(lines) ==
    IF has_vscode_vars(lines) THEN "VsCode" ELSE "JetBrains"

detect_format(lines) ==
    IF has_scripts(lines) THEN "JetBrains"
    ELSE IF has_vscode_vars(lines) THEN "VsCode"
    ELSE "JetBrains"

\* the match of parse_http_content
ParserFor(fmt) == IF fmt = "VsCode" THEN "vscode" ELSE "jetbrains"

----------------------------------------------------------------------------
(* substitute_variables.                                                   *)

NoPlaceholder == [matched |-> FALSE, name |-> <<>>, start |-> 0, end |-> 0]

\* \{\{([\w.-]+)\}\} matched at position p of s
PlaceholderAt(s, p) ==
    LET k == RunLen(s, p + 2, PlaceholderChars)
    IN IF /\ p + 4 <= Len(s)
          /\ s[p] = "{" /\ s[p + 1] = "{"
          /\ k > 0
          /\ p + 3 + k <= Len(s)
          /\ s[p + 2 + k] = "}" /\ s[p + 3 + k] = "}"
       THEN [matched |-> TRUE, name |-> SubSeq(s, p + 2, p + 1 + k),
             start |-> p, end |-> p + 3 + k]
       ELSE NoPlaceholder

\* the leftmost match of the regex at or after position pos
NextMatch(s, pos) ==
    LET hits == {p \in pos..Len(s) : PlaceholderAt(s, p).matched}
    IN IF hits = {} THEN NoPlaceholder ELSE PlaceholderAt(s, Min(hits))

\* a lookup that yields the empty string for an unknown name
ReplacementOrEmpty(name, variables) ==
    IF name \in DOMAIN variables THEN variables[name] ELSE <<>>

\* a lookup that writes an unknown name back with single braces
ReplacementOneBrace(name, variables) ==
    IF name \in DOMAIN variables THEN variables[name]
    ELSE <<"{">> \o name \o <<"}">>

\* variables.get(var_name).cloned().unwrap_or_else(|| format!("{{{{{}}}}}", var_name))
Replacement(name, variables) ==
    IF name \in DOMAIN variables THEN variables[name]
    ELSE <<"{", "{">> \o name \o <<"}", "}">>

\* a search that goes on at the match itself
ResumeAtMatch(m) == m.start

\* where replace_all goes on searching after a match
ResumeAfter(m) == m.end + 1

----------------------------------------------------------------------------
(* curl_to_http.                                                           *)

\* CurlCommand::default()
DefaultCommand ==
    [method |-> <<"G", "E", "T">>, url |-> <<>>, headers |-> EmptyMap,
     body |-> None, auth |-> None, flags |-> <<>>]

\* the bytes of the characters that credentials are made of
CharCode == ("u" :> 117) @@ ("p" :> 112) @@ (":" :> 58)

\* str::as_bytes
as_bytes(s) == [i \in 1..Len(s) |-> CharCode[s[i]]]

Base64Alphabet ==
    <<"A", "B", "C", "D", "E", "F", "G", "H", "I", "J", "K", "L", "M",
      "N", "O", "P", "Q", "R", "S", "T", "U", "V", "W", "X", "Y", "Z",
      "a", "b", "c", "d", "e", "f", "g", "h", "i", "j", "k", "l", "m",
      "n", "o", "p", "q", "r", "s", "t", "u", "v", "w", "x", "y", "z",
      "0", "1", "2", "3", "4", "5", "6", "7", "8", "9", "+", "/">>

\* the base64 digit of a 6-bit value
Sextet(n) == Base64Alphabet[n + 1]

RECURSIVE Base64(_)
\* STANDARD.encode(bytes): three bytes give four digits, "=" pads the end
Base64(bytes) ==
    IF bytes = <<>> THEN <<>>
    ELSE IF Len(bytes) = 1
    THEN <<Sextet(bytes[1] \div 4), Sextet((bytes[1] % 4) * 16), "=", "=">>
    ELSE IF Len(bytes) = 2
    THEN <<Sextet(bytes[1] \div 4),
           Sextet((bytes[1] % 4) * 16 + bytes[2] \div 16),
           Sextet((bytes[2] % 16) * 4), "=">>
    ELSE <<Sextet(bytes[1] \div 4),
           Sextet((bytes[1] % 4) * 16 + bytes[2] \div 16),
           Sextet((bytes[2] % 16) * 4 + bytes[3] \div 64),
           Sextet(bytes[3] % 64)>>
             \o Base64(SubSeq(bytes, 4, Len(bytes)))

UpperCase ==
    <<"A", "B", "C", "D", "E", "F", "G", "H", "I", "J", "K", "L", "M",
      "N", "O", "P", "Q", "R", "S", "T", "U", "V", "W", "X", "Y", "Z">>

LowerCase ==
    <<"a", "b", "c", "d", "e", "f", "g", "h", "i", "j", "k", "l", "m",
      "n", "o", "p", "q", "r", "s", "t", "u", "v", "w", "x", "y", "z">>

\* str::to_lowercase
to_lowercase(s) ==
    [i \in 1..Len(s) |->
        IF \E j \in 1..26 : UpperCase[j] = s[i]
        THEN LowerCase[CHOOSE j \in 1..26 : UpperCase[j] = s[i]]
        ELSE s[i]]

\* the characters of header keys in the order of their bytes
CharOrder ==
    <<"-", ".", "0", "1", "2", "3", "4", "5", "6", "7", "8", "9">>
        \o UpperCase \o <<"_">> \o LowerCase

Rank(c) == CHOOSE i \in 1..Len(CharOrder) : CharOrder[i] = c

RECURSIVE StrLess(_, _)
\* a < b for strings (byte-wise lexicographic order)
StrLess(a, b) ==
    IF b = <<>> THEN FALSE
    ELSE IF a = <<>> THEN TRUE
    ELSE IF Head(a) # Head(b) THEN Rank(Head(a)) < Rank(Head(b))
    ELSE StrLess(Tail(a), Tail(b))

\* headers.sort_by_key(|(k, _)| k.to_lowercase()) over the map's iteration
\* order, which is arbitrary: every order of the keys that is sorted by
\* lower-cased key
HeaderOrders(headers) ==
    LET n == Cardinality(DOMAIN headers)
    IN {o \in [1..n -> DOMAIN headers] :
           /\ \A i, j \in 1..n : i # j => o[i] # o[j]
           /\ \A i, j \in 1..n :
                  i < j => ~StrLess(to_lowercase(o[j]), to_lowercase(o[i]))}

\* format!("Authorization: Basic {}\n", encoded)
AuthLine(auth) ==
    IF auth.some
    THEN <<"A", "u", "t", "h", "o", "r", "i", "z", "a", "t", "i", "o", "n", ":", " ", "B", "a", "s", "i", "c", " ">>
             \o Base64(as_bytes(auth.val[1] \o <<":">> \o auth.val[2]))
             \o <<"\n">>
    ELSE <<>>

RECURSIVE HeaderText(_, _)
\* format!("{}: {}\n", key, value) for the keys in the given order
HeaderText(headers, order) ==
    IF order = <<>> THEN <<>>
    ELSE Head(order) \o <<":", " ">> \o headers[Head(order)] \o <<"\n">>
             \o HeaderText(headers, Tail(order))

\* the body as it is written: the bodies of the model are no JSON, so that
\* serde_json::from_str fails and the text is pushed unchanged
BodyText(body) ==
    IF body.some THEN <<"\n">> \o body.val \o <<"\n">> ELSE <<>>

RECURSIVE FlagNotes(_)
\* format!("# Note: {} flag was set in cURL\n", flag) for every flag
FlagNotes(flags) ==
    IF flags = <<>> THEN <<>>
    ELSE <<"#", " ", "N", "o", "t", "e", ":", " ">> \o Head(flags) \o <<" ", "f", "l", "a", "g", " ", "w", "a", "s", " ", "s", "e", "t", " ", "i", "n", " ", "c", "U", "R", "L">> \o <<"\n">>
             \o FlagNotes(Tail(flags))

\* the comments for the flags and the blank lines in front of them
FlagText(cmd) ==
    IF cmd.flags = <<>> THEN <<>>
    ELSE (IF cmd.body.some THEN <<>> ELSE <<"\n">>) \o <<"\n">>
             \o FlagNotes(cmd.flags)

\* curl_to_http(cmd), the headers written in the given order
curl_to_http(cmd, order) ==
    cmd.method \o <<" ">> \o cmd.url \o <<"\n">>
        \o AuthLine(cmd.auth)
        \o HeaderText(cmd.headers, order)
        \o BodyText(cmd.body)
        \o FlagText(cmd)

RECURSIVE Lines(_)
\* str::lines: the text split at "\n" (a "\r" in front of it dropped); no
\* empty last line for a text that ends with "\n"
Lines(text) ==
    IF text = <<>> THEN <<>>
    ELSE LET nl == {i \in 1..Len(text) : text[i] = "\n"}
         IN IF nl = {} THEN <<text>>
            ELSE LET k == Min(nl)
                     l == SubSeq(text, 1, k - 1)
                 IN <<IF EndsWith(l, <<"\r">>) THEN SubSeq(l, 1, Len(l) - 1)
                      ELSE l>>
                        \o Lines(From(text, k + 1))

----------------------------------------------------------------------------
(* Inputs.                                                                 *)

BoundedSeq(S, n) == UNION {[1..k -> S] : k \in 0..n}

RECURSIVE Flatten(_)
Flatten(ss) == IF ss = <<>> THEN <<>> ELSE Head(ss) \o Flatten(Tail(ss))

Blank == <<>>
Separator == <<"#", "#", "#">>
NamedSeparator == <<"#", "#", "#", " ", "A">>
GetA == <<"G", "E", "T", " ", "/", "a">>
PostB == <<"P", "O", "S", "T", " ", "/", "b">>
PostX == <<"P", "O", "S", "T", " ", "/", "x">>
HeaderLine == <<"H", ":", " ", "v">>
VarLine == <<"@", "v", " ", "=", " ", "1">>
PostOpen == <<">", " ", "{", "%">>
PreOpen == <<"<", " ", "{", "%">>
Close == <<"%", "}">>
Text == <<"x">>
MetaLine == <<"#", " ", "@", "k", " ", "w">>
UrlLine == <<"/", "u">>

\* the lines the documents of Spec are made of
Catalogue ==
    {Blank, Separator, GetA, PostB, HeaderLine, VarLine, PostOpen, PreOpen,
     Close, Text, MetaLine, UrlLine}

\* URL tokens of the one-line documents
UrlTokens ==
    {<<"/", "a">>, <<"/", "b">>, <<"x">>, <<"{", "{", "u", "}", "}">>,
     <<"H", "T", "T", "P", "/", "1", ".", "1">>, <<"a", "=", "b">>}

MethodLine(verb, url) == verb \o <<" ">> \o url

OneLineDocs == {<<MethodLine(v, u)>> : v \in Methods, u \in UrlTokens}

Docs == BoundedSeq(Catalogue, MaxLines) \cup OneLineDocs

\* documents of separators and method lines
SectionDocs == BoundedSeq({Separator, NamedSeparator, GetA, PostB}, MaxSectionLines)

\* lines that follow the blank line of a body document
BodyCatalogue ==
    {Blank, <<" ">>, <<"{", "}">>, <<" ", "y">>, <<"z", " ">>,
     <<"K", ":", " ", "v">>}

BodyDocs ==
    {<<PostX, Blank>> \o b : b \in BoundedSeq(BodyCatalogue, MaxBodyLines) \ {<<>>}}

\* lines that decide detect_format
DetectCatalogue ==
    {Blank, GetA, VarLine, <<"@", "v", "=", "1">>,
     <<"@", " ", "v", " ", "=", " ", "1">>,
     <<"x", " ", "@", "v", " ", "=", " ", "1">>,
     <<" ", "@", "w", "-", " ", " ", "=">>,
     PreOpen, <<" ", ">", " ", "{", "%", " ", "x">>, <<"<", "{", "%">>, Close}

DetectDocs == BoundedSeq(DetectCatalogue, MaxDetectLines)

\* the lines between the opener and the closer of a script block
ScriptCatalogue == {Text, <<" ", "y">>, HeaderLine, PostB}

CloseAfterText == <<"z", " ", "%", "}">>

\* closed script blocks that start with the given opener
ScriptBlocks(opener) ==
    {<<opener>> \o inner \o <<closer>> :
        inner \in BoundedSeq(ScriptCatalogue, MaxScriptLines),
        closer \in {Close, CloseAfterText}}

OtherHeader == <<"K", ":", "w">>

\* what follows the request of a script document
ScriptTails == {<<>>, <<HeaderLine>>, <<Text>>, <<Separator, PostB>>}

\* a pre-request script block, then the method/URL line and header lines
PreDocs ==
    {blk \o gap \o <<GetA>> \o hdrs \o tail :
        blk \in ScriptBlocks(PreOpen),
        gap \in {<<>>, <<Blank>>},
        hdrs \in {<<>>, <<HeaderLine>>, <<OtherHeader, HeaderLine>>},
        tail \in {<<>>, <<Separator, PostB>>}}

\* a method/URL line, a blank line, a post-request script block
PostDocs ==
    {<<GetA, Blank>> \o blk \o tail :
        blk \in ScriptBlocks(PostOpen), tail \in ScriptTails}

\* the body lines of the documents with a body and a post-request script
ScriptBodies == {<<Text>>, <<<<"{", "}">>, Blank>>}

\* what follows the block of a document with a body and a post-request script
PostBodyTails == {<<>>, <<Text>>, <<Blank>>, <<Separator, PostB>>}

\* a method/URL line, a blank line, body lines, a post-request script block
PostBodyDocs ==
    {<<PostX, Blank>> \o body \o blk \o tail :
        body \in ScriptBodies,
        blk \in ScriptBlocks(PostOpen),
        tail \in PostBodyTails}

\* an opener with no closing line before the next separator
UnclosedDocs ==
    {before \o <<opener>> \o inner \o after :
        before \in {<<>>, <<GetA>>, <<GetA, Blank>>, <<GetA, Blank, Text>>},
        opener \in {PreOpen, PostOpen, <<"<", "{", "%">>},
        inner \in BoundedSeq({Text, HeaderLine}, MaxScriptLines),
        after \in {<<>>, <<Separator, PostB>>, <<Separator, Close>>}}

ScriptDocs == PreDocs \cup PostDocs \cup PostBodyDocs \cup UnclosedDocs

HeaderUpper == <<"C", "-", "T", ":", " ", "a">>
HeaderLower == <<"c", "-", "t", ":", " ", "b">>
HeaderAgain == <<"C", "-", "T", ":", " ", " ", "c", " ">>
HeaderTight == <<"H", ":", "v">>

\* header lines: two spellings of one key, a repeated key, no space after
\* the colon
HeaderCatalogue == {HeaderUpper, HeaderLower, HeaderAgain, HeaderTight}

NameLine == <<"#", " ", "@", "n", "a", "m", "e", " ", "X">>
HttpUrl == <<"h", "t", "t", "p", ":", "/", "/", "x">>
HttpsUrl == <<"h", "t", "t", "p", "s", ":", "/", "/", "x">>

\* bare URL lines
BareUrls == {HttpUrl, HttpsUrl, UrlLine}

\* the lines of the documents of headers, annotations and bare URLs
LineCatalogue ==
    HeaderCatalogue \cup BareUrls \cup {GetA, NameLine, Blank, Separator}

LineDocs ==
    BoundedSeq(LineCatalogue, MaxHeaderLines)
        \cup {<<GetA>> \o h : h \in BoundedSeq(HeaderCatalogue, MaxHeaderLines)}

\* documents of the callers that parse more than once: they leave a variable
\* table, a body buffer, body mode and an output behind
AgainDocs ==
    {<<GetA>>, <<VarLine, GetA>>, <<PostX, Blank, Text>>,
     <<GetA, Separator, PostB>>, <<HeaderLine>>}

\* the commands handed to curl_to_http: a verb of the parser and one it
\* does not know, keys that differ in case only, a body of two lines
CurlMethods == {<<"G", "E", "T">>, <<"P", "O", "S", "T">>, <<"P", "U", "R", "G", "E">>}

CurlUrls == {<<>>, <<"/", "a">>, HttpUrl}

CurlHeaders == UNION {[K -> {<<"1">>}] : K \in SUBSET {<<"A">>, <<"a">>, <<"b">>}}

CurlBodies == {None, Some(<<"x">>), Some(<<"a", "\n", "b">>)}

CurlAuths == {None, Some(<<<<"u">>, <<"p">>>>)}

CurlFlags == {<<>>, <<<<"i", "n", "s", "e", "c", "u", "r", "e">>>>}

CurlCommands ==
    [method : CurlMethods, url : CurlUrls, headers : CurlHeaders,
     body : CurlBodies, auth : CurlAuths, flags : CurlFlags]

SlashComment == <<"/", "/", " ", "c">>
HashComment == <<"#", " ", "c">>
LowerVerb == <<"g", "e", "t", " ", "/", "a">>
PreTight == <<"<", "{", "%">>
PreWide == <<"<", " ", " ", "{", "%">>
PostTight == <<">", "{", "%">>
PreOpenOneLine == <<"<", " ", "{", "%", " ", "x", " ", "%", "}">>
CloseTwice == <<"a", "%", "}", "%", "}">>
CloseIndented == <<" ", "%", "}", " ">>

\* the lines that follow the blank line of a request in body mode
BodyModeCatalogue ==
    {PreOpen, PostOpen, Close, <<" ", "y">>, MetaLine, SlashComment, VarLine,
     GetA, HeaderLine, Separator}

BodyModeDocs ==
    {<<PostX, Blank>> \o b : b \in BoundedSeq(BodyModeCatalogue, MaxRuleLines)}

\* the script block of the documents with lines after a post-request script
CapturedBlock == <<PostOpen, Text, Close>>

\* a request, with or without body, a post-request script, more lines
AfterScriptDocs ==
    {<<GetA, Blank>> \o body \o CapturedBlock \o tail :
        body \in {<<>>, <<Text>>},
        tail \in BoundedSeq({Blank, Text, HeaderLine, Separator}, MaxRuleLines)}

\* the closing lines of the documents about extract_script_block
Closers == {Close, CloseAfterText, CloseIndented, CloseTwice}

\* a pre-request block with one of the closing lines, then the request
CloserDocs ==
    {<<opener>> \o inner \o <<closer>> \o <<GetA>> :
        opener \in {PreOpen, PreOpenOneLine},
        inner \in BoundedSeq({Text, <<" ", "y">>}, MaxRuleLines),
        closer \in Closers}

\* lines of the grammar the two parsers share, and lines of no rule
PlainCatalogue ==
    {Text, LowerVerb, Blank, GetA, UrlLine, Separator, NamedSeparator,
     HeaderLine, SlashComment, HashComment}

PlainDocs == BoundedSeq(PlainCatalogue, MaxPlainLines)

\* captured script blocks behind openers with and without the space, with
\* and without a variable definition in the document
OpenerDocs ==
    {pre \o <<opener, Text, Close, GetA>> :
        pre \in {<<>>, <<VarLine>>}, opener \in {PreOpen, PreTight, PreWide}}
    \cup
    {pre \o <<GetA, Blank, opener, Text, Close>> :
        pre \in {<<>>, <<VarLine>>}, opener \in {PostOpen, PostTight}}

RuleDocs ==
    BodyModeDocs \cup AfterScriptDocs \cup CloserDocs \cup PlainDocs
        \cup OpenerDocs

\* a second definition of the variable of VarLine, a second annotation with
\* the key of MetaLine
VarAgain == <<"@", "v", " ", "=", " ", "2">>
MetaAgain == <<"#", " ", "@", "k", " ", "z">>

\* variable definitions, annotations and comments among request lines
NoteCatalogue ==
    {VarLine, VarAgain, MetaLine, MetaAgain, HashComment, SlashComment, GetA,
     Blank, HeaderLine, Separator, NamedSeparator}

\* a request with a comment before it, in its header section and in its body
CommentedRequest == <<HashComment, GetA, SlashComment, Blank, HashComment>>

\* such lines anywhere in a short document, and behind the blank line that
\* puts a request into body mode
NoteDocs ==
    BoundedSeq(NoteCatalogue, MaxNoteLines)
        \cup {<<GetA, Blank>> \o b :
                 b \in BoundedSeq(NoteCatalogue, MaxNoteBodyLines)}
        \cup {CommentedRequest}

\* pieces the inputs of substitute_variables are made of
Tokens ==
    {<<"{", "{", "a", "}", "}">>, <<"{", "{", "b", "}", "}">>,
     <<"{", "{", "m", "-", ".", "}", "}">>, <<"{", "{">>, <<"}", "}">>, <<"/">>}

Inputs == {Flatten(ts) : ts \in BoundedSeq(Tokens, MaxTokens)}

Names == {<<"a">>, <<"b">>}

Values ==
    {<<"1">>, <<"a">>, <<"{", "{", "a", "}", "}">>, <<"{", "{", "b", "}", "}">>}

Tables == UNION {[K -> Values] : K \in SUBSET Names}

----------------------------------------------------------------------------
(* The state machine.                                                      *)

\* the locals of the running parser; panic is set by a step that unwraps None
Locals == [idx |-> idx, cur |-> current_request, inb |-> in_body,
           blines |-> body_lines, fvars |-> file_variables, reqs |-> requests,
           panic |-> FALSE]

SetLocals(S) ==
    /\ idx' = S.idx
    /\ current_request' = S.cur
    /\ in_body' = S.inb
    /\ body_lines' = S.blines
    /\ file_variables' = S.fvars
    /\ requests' = S.reqs
    /\ result' = IF S.panic THEN "panic" ELSE result
    /\ pc' = IF S.panic THEN "done" ELSE pc

ParserIdle ==
    /\ entry = "none"
    /\ format = "none"
    /\ idx = 0
    /\ current_request = NoRequest
    /\ in_body = FALSE
    /\ body_lines = <<>>
    /\ file_variables = EmptyMap
    /\ requests = <<>>
    /\ result = "none"
    /\ calls = 0
    /\ earlier = <<>>
    /\ curl_cmd = DefaultCommand

SubstIdle ==
    /\ sv_pc = "idle"
    /\ sv_input = <<>>
    /\ sv_vars = EmptyMap
    /\ sv_pos = 1
    /\ sv_out = <<>>
    /\ sv_call = 0
    /\ sv_first = <<>>

\* no cURL command has been parsed
TokensIdle == curl_command = <<>> /\ tokens = <<>> /\ curl_result = "none"

NoCallback == [code |-> None, state |-> None, error |-> None,
               error_description |-> None]

NoAnswer == [ok |-> FALSE, err |-> "none", val |-> NoCallback]

\* no OIDC login is under way
OidcIdle ==
    /\ oidc_pc = "idle"
    /\ redirect_url = [valid |-> FALSE, path |-> <<>>]
    /\ expected_state = <<>>
    /\ request_line = [parts |-> 0, path |-> <<>>, query |-> <<>>]
    /\ server_result = NoAnswer
    /\ wait_result = [ok |-> FALSE, val |-> "none"]

\* static WATCHER: Mutex<Option<WatcherState>> = Mutex::new(None), no command
\* has run
WatchIdle ==
    /\ WATCHER = [some |-> FALSE, id |-> 0, watched_path |-> "none"]
    /\ sw_pc = "idle"
    /\ directory = "none"
    /\ watcher = 0
    /\ senders = {}
    /\ channel = <<>>
    /\ threads = <<>>
    /\ emitted = {}
    /\ returned = [call |-> "none", result |-> "none"]
    /\ observed = "none"

SideIdle == TokensIdle /\ OidcIdle /\ WatchIdle

InitWith(D) ==
    content \in D /\ pc = "start" /\ ParserIdle /\ SubstIdle /\ SideIdle

Init == InitWith(Docs)
InitSections == InitWith(SectionDocs)
InitBody == InitWith(BodyDocs)
InitDetect == InitWith(DetectDocs)
InitScripts == InitWith(ScriptDocs)
InitLines == InitWith(LineDocs)
InitAgain == InitWith(AgainDocs)
InitRules == InitWith(RuleDocs)
InitNotes == InitWith(NoteDocs)

InitCurl ==
    /\ content = <<>> /\ pc = "curl"
    /\ entry = "none"
    /\ format = "none"
    /\ idx = 0
    /\ current_request = NoRequest
    /\ in_body = FALSE
    /\ body_lines = <<>>
    /\ file_variables = EmptyMap
    /\ requests = <<>>
    /\ result = "none"
    /\ calls = 0
    /\ earlier = <<>>
    /\ curl_cmd \in CurlCommands
    /\ SubstIdle
    /\ SideIdle

InitSubst ==
    /\ content = <<>> /\ pc = "idle" /\ ParserIdle
    /\ sv_pc = "start"
    /\ sv_input = <<>>
    /\ sv_vars = EmptyMap
    /\ sv_pos = 1
    /\ sv_out = <<>>
    /\ sv_call = 0
    /\ sv_first = <<>>
    /\ SideIdle

\* a prologue that keeps the variable table of the call before
PrologueKeepingVariables ==
    /\ idx' = FreshLocals.idx
    /\ current_request' = FreshLocals.cur
    /\ in_body' = FreshLocals.inb
    /\ body_lines' = FreshLocals.blines
    /\ file_variables' = file_variables
    /\ requests' = FreshLocals.reqs
    /\ result' = "none"
    /\ calls' = calls + 1

\* the prologue of a parser: every local is declared anew by the call
Prologue ==
    /\ idx' = FreshLocals.idx
    /\ current_request' = FreshLocals.cur
    /\ in_body' = FreshLocals.inb
    /\ body_lines' = FreshLocals.blines
    /\ file_variables' = FreshLocals.fvars
    /\ requests' = FreshLocals.reqs
    /\ result' = "none"
    /\ calls' = calls + 1

\* parse_http_content(content): detect the format, enter the parser
ParseHttpContent ==
    /\ pc = "start"
    /\ entry' = "parse_http_content"
    /\ format' = detect_format(content)
    /\ pc' = ParserFor(format')
    /\ Prologue
    /\ UNCHANGED <<content, earlier, curl_cmd>>
    /\ UNCHANGED <<substVars, sideVars>>

\* parse_jetbrains(content), called directly
ParseJetbrains ==
    /\ pc = "start"
    /\ entry' = "parse_jetbrains"
    /\ pc' = "jetbrains"
    /\ Prologue
    /\ UNCHANGED <<content, format, earlier, curl_cmd>>
    /\ UNCHANGED <<substVars, sideVars>>

\* parse_vscode(content), called directly
ParseVscode ==
    /\ pc = "start"
    /\ entry' = "parse_vscode"
    /\ pc' = "vscode"
    /\ Prologue
    /\ UNCHANGED <<content, format, earlier, curl_cmd>>
    /\ UNCHANGED <<substVars, sideVars>>

\* one iteration of parse_jetbrains' while loop
JetbrainsLine ==
    /\ pc = "jetbrains"
    /\ idx < Len(content)
    /\ SetLocals(JbLineStep(content, Locals))
    /\ UNCHANGED <<content, entry, format, calls, earlier, curl_cmd>>
    /\ UNCHANGED <<substVars, sideVars>>

\* an end of parse_jetbrains that does not store the body
JetbrainsEndWithoutBody ==
    /\ pc = "jetbrains"
    /\ idx >= Len(content)
    /\ requests' = JbFinalize(current_request, FALSE, body_lines,
                              file_variables, requests)
    /\ current_request' = NoRequest
    /\ result' = "Ok"
    /\ pc' = "done"
    /\ UNCHANGED <<content, entry, format, idx, in_body, body_lines,
                   file_variables, calls, earlier, curl_cmd>>
    /\ UNCHANGED <<substVars, sideVars>>

\* the end of parse_jetbrains: the last request, then Ok(requests)
JetbrainsEnd ==
    /\ pc = "jetbrains"
    /\ idx >= Len(content)
    /\ requests' = JbFinalize(current_request, in_body, body_lines,
                              file_variables, requests)
    /\ current_request' = NoRequest
    /\ result' = "Ok"
    /\ pc' = "done"
    /\ UNCHANGED <<content, entry, format, idx, in_body, body_lines,
                   file_variables, calls, earlier, curl_cmd>>
    /\ UNCHANGED <<substVars, sideVars>>

\* one iteration of parse_vscode's for loop
VscodeLine ==
    /\ pc = "vscode"
    /\ idx < Len(content)
    /\ SetLocals(VsLineStep(content, Locals))
    /\ UNCHANGED <<content, entry, format, calls, earlier, curl_cmd>>
    /\ UNCHANGED <<substVars, sideVars>>

\* the end of parse_vscode: the last request, then Ok(requests)
VscodeEnd ==
    /\ pc = "vscode"
    /\ idx >= Len(content)
    /\ requests' = VsFinalize(current_request, in_body, body_lines,
                              file_variables, requests)
    /\ current_request' = NoRequest
    /\ result' = "Ok"
    /\ pc' = "done"
    /\ UNCHANGED <<content, entry, format, idx, in_body, body_lines,
                   file_variables, calls, earlier, curl_cmd>>
    /\ UNCHANGED <<substVars, sideVars>>

\* substitute_variables(input, variables)
SubstCall ==
    /\ sv_pc = "start"
    /\ \E input \in Inputs, variables \in Tables :
           /\ sv_input' = input
           /\ sv_vars' = variables
           /\ sv_first' = input
    /\ sv_pos' = 1
    /\ sv_out' = <<>>
    /\ sv_call' = 1
    /\ sv_pc' = "scan"
    /\ UNCHANGED <<parseVars, sideVars>>

\* one step of replace_all: copy up to the next match and replace it, or
\* copy the rest of the input and return
SubstScan ==
    /\ sv_pc = "scan"
    /\ LET m == NextMatch(sv_input, sv_pos)
       IN IF m.matched
          THEN /\ sv_out' = sv_out \o SubSeq(sv_input, sv_pos, m.start - 1)
                                  \o Replacement(m.name, sv_vars)
               /\ sv_pos' = ResumeAfter(m)
               /\ sv_pc' = "scan"
          ELSE /\ sv_out' = sv_out \o From(sv_input, sv_pos)
               /\ sv_pos' = Len(sv_input) + 1
               /\ sv_pc' = "done"
    /\ UNCHANGED <<sv_input, sv_vars, sv_call, sv_first>>
    /\ UNCHANGED <<parseVars, sideVars>>

\* the caller runs substitute_variables again on the result, same table
SubstAgain ==
    /\ sv_pc = "done"
    /\ sv_call = 1
    /\ sv_input' = sv_out
    /\ sv_pos' = 1
    /\ sv_out' = <<>>
    /\ sv_call' = 2
    /\ sv_pc' = "scan"
    /\ UNCHANGED <<sv_vars, sv_first>>
    /\ UNCHANGED <<parseVars, sideVars>>

Next ==
    \/ ParseHttpContent
    \/ ParseJetbrains
    \/ ParseVscode
    \/ JetbrainsLine
    \/ JetbrainsEnd
    \/ VscodeLine
    \/ VscodeEnd

\* the caller has the result and calls a parser on another document; what
\* the call before left in memory is still there
CallAgain ==
    /\ pc = "done"
    /\ calls < MaxCalls
    /\ \E d \in AgainDocs : content' = d
    /\ earlier' = Append(earlier, [entry |-> entry, content |-> content,
                                   requests |-> requests, result |-> result])
    /\ pc' = "start"
    /\ UNCHANGED <<entry, format, idx, current_request, in_body, body_lines,
                   file_variables, requests, result, calls, curl_cmd>>
    /\ UNCHANGED <<substVars, sideVars>>

NextAgain == Next \/ CallAgain

\* curl_to_http(&cmd); the text is then handed to the parser
CurlToHttp ==
    /\ pc = "curl"
    /\ \E order \in HeaderOrders(curl_cmd.headers) :
           content' = Lines(curl_to_http(curl_cmd, order))
    /\ pc' = "start"
    /\ UNCHANGED <<entry, format, idx, current_request, in_body, body_lines,
                   file_variables, requests, result, calls, earlier, curl_cmd>>
    /\ UNCHANGED <<substVars, sideVars>>

NextCurl == CurlToHttp \/ Next

NextSubst == SubstCall \/ SubstScan \/ SubstAgain

Spec == Init /\ [][Next]_vars
SpecSections == InitSections /\ [][Next]_vars
SpecBody == InitBody /\ [][Next]_vars
SpecDetect == InitDetect /\ [][Next]_vars
SpecScripts == InitScripts /\ [][Next]_vars
SpecLines == InitLines /\ [][Next]_vars
SpecAgain == InitAgain /\ [][NextAgain]_vars
SpecRules == InitRules /\ [][Next]_vars
SpecNotes == InitNotes /\ [][Next]_vars
SpecCurl == InitCurl /\ [][NextCurl]_vars
SpecSubst == InitSubst /\ [][NextSubst]_vars

----------------------------------------------------------------------------
(* The OIDC callback: oidc_wait_for_callback and start_callback_server.    *)

\* the values of query parameters and of expected_state
OidcValues == {<<"1">>, <<"2">>}

OidcKeys == {"code", "state", "error", "error_description"}

\* the query of a callback request: key=value pairs in the order written
OidcQueries ==
    BoundedSeq([key : OidcKeys, value : OidcValues], MaxParams)

\* a request line of fewer than two parts
ShortLine == [parts |-> 1, path |-> <<>>, query |-> <<>>]

\* request lines "GET <path>?<query> HTTP/1.1", and a short one
RequestLines ==
    [parts : {3}, path : {<<"/", "c", "b">>, <<"/", "x">>}, query : OidcQueries]
        \cup {ShortLine}

\* redirect URLs: one that Url::parse rejects, one without path, one with
RedirectUrls ==
    {[valid |-> FALSE, path |-> <<>>],
     [valid |-> TRUE, path |-> <<"/">>],
     [valid |-> TRUE, path |-> <<"/", "c", "b">>]}

\* HashMap::get(..).cloned()
MapGet(m, key) == IF key \in DOMAIN m THEN Some(m[key]) ELSE None

RECURSIVE QueryParams(_)
\* parsed.query_pairs().into_owned().collect::<HashMap<_, _>>()
QueryParams(q) ==
    IF q = <<>> THEN EmptyMap
    ELSE MapInsert(QueryParams(SubSeq(q, 1, Len(q) - 1)),
                   q[Len(q)].key, q[Len(q)].value)

\* the CallbackResult built from the parameters
CallbackOf(params) ==
    [code |-> MapGet(params, "code"),
     state |-> MapGet(params, "state"),
     error |-> MapGet(params, "error"),
     error_description |-> MapGet(params, "error_description")]

\* if let Some(ref state) = result.state { if state != expected_state {..} }
StateRejected(res, expected) ==
    res.state.some /\ res.state.val # expected

Failed(msg) == [ok |-> FALSE, err |-> msg, val |-> NoCallback]

\* what start_callback_server does with the request line it has read: an
\* error, or the result that is returned once the response is sent
HandleLine(l, url, expected) ==
    IF l.parts < 2 THEN Failed("Invalid HTTP request")
    ELSE IF ~StartsWith(l.path, url.path) THEN Failed("Unexpected callback path")
    ELSE LET res == CallbackOf(QueryParams(l.query))
         IN IF StateRejected(res, expected)
            THEN Failed("State mismatch - possible CSRF attack")
            ELSE [ok |-> FALSE, err |-> "none", val |-> res]

\* what oidc_wait_for_callback makes of the server's answer
WaitResultOf(ans) ==
    IF ~ans.ok THEN [ok |-> FALSE, val |-> ans.err]
    ELSE IF ans.val.error.some THEN [ok |-> FALSE, val |-> "error"]
    ELSE IF ans.val.code.some THEN [ok |-> TRUE, val |-> ans.val.code.val]
    ELSE [ok |-> FALSE, val |-> "No authorization code received"]

OidcFrame == UNCHANGED <<parseVars, substVars, tokenVars, watchVars>>

\* oidc_wait_for_callback(redirect_url, expected_state) calls
\* start_callback_server, which parses the redirect URL
OidcWaitForCallback ==
    /\ oidc_pc = "idle"
    /\ \E r \in RedirectUrls, e \in OidcValues :
           /\ redirect_url' = r
           /\ expected_state' = e
           /\ IF r.valid
              THEN oidc_pc' = "bind" /\ server_result' = server_result
              ELSE /\ oidc_pc' = "returned"
                   /\ server_result' = Failed("Invalid redirect URL")
    /\ UNCHANGED <<request_line, wait_result>>
    /\ OidcFrame

\* TcpListener::bind(&bind_addr)
Bind ==
    /\ oidc_pc = "bind"
    /\ \/ oidc_pc' = "accept" /\ server_result' = server_result
       \/ oidc_pc' = "returned" /\ server_result' = Failed("Failed to bind")
    /\ UNCHANGED <<redirect_url, expected_state, request_line, wait_result>>
    /\ OidcFrame

\* listener.accept()
Accept ==
    /\ oidc_pc = "accept"
    /\ \/ oidc_pc' = "read" /\ server_result' = server_result
       \/ /\ oidc_pc' = "returned"
          /\ server_result' = Failed("Failed to accept connection")
    /\ UNCHANGED <<redirect_url, expected_state, request_line, wait_result>>
    /\ OidcFrame

\* reader.read_line(&mut request_line)
ReadRequestLine ==
    /\ oidc_pc = "read"
    /\ \/ /\ \E l \in RequestLines : request_line' = l
          /\ oidc_pc' = "handle"
          /\ server_result' = server_result
       \/ /\ oidc_pc' = "returned"
          /\ server_result' = Failed("Failed to read request")
          /\ request_line' = request_line
    /\ UNCHANGED <<redirect_url, expected_state, wait_result>>
    /\ OidcFrame

\* the request line is split, the path and the state are checked
HandleRequest ==
    /\ oidc_pc = "handle"
    /\ server_result' = HandleLine(request_line, redirect_url, expected_state)
    /\ oidc_pc' = IF server_result'.err = "none" THEN "respond" ELSE "returned"
    /\ UNCHANGED <<redirect_url, expected_state, request_line, wait_result>>
    /\ OidcFrame

\* the page is written to the socket, then Ok(result)
SendResponse ==
    /\ oidc_pc = "respond"
    /\ \/ server_result' = [server_result EXCEPT !.ok = TRUE]
       \/ server_result' = Failed("Failed to send response")
    /\ oidc_pc' = "returned"
    /\ UNCHANGED <<redirect_url, expected_state, request_line, wait_result>>
    /\ OidcFrame

\* oidc_wait_for_callback returns the code or an error
OidcReturn ==
    /\ oidc_pc = "returned"
    /\ wait_result' = WaitResultOf(server_result)
    /\ oidc_pc' = "done"
    /\ UNCHANGED <<redirect_url, expected_state, request_line, server_result>>
    /\ OidcFrame

NextOidc ==
    \/ OidcWaitForCallback
    \/ Bind
    \/ Accept
    \/ ReadRequestLine
    \/ HandleRequest
    \/ SendResponse
    \/ OidcReturn

InitOidc ==
    /\ content = <<>> /\ pc = "idle" /\ ParserIdle /\ SubstIdle /\ SideIdle

SpecOidc == InitOidc /\ [][NextOidc]_vars

----------------------------------------------------------------------------
(* The file watcher: the commands start_watching, stop_watching and        *)
(* get_watched_path, which run one at a time, and the event threads that   *)
(* start_watching spawns.  A watch is numbered by the order of channel():  *)
(* channel[id] is the buffer of its mpsc channel, senders holds the ids    *)
(* whose tx (owned by the watcher's callback) is alive, threads[id] is the *)
(* thread that owns its rx.                                                *)

Directories == {"d1"}

\* the path of a file event
HttpFile == [hidden |-> FALSE, is_dir |-> FALSE, ext |-> "http"]
TextFile == [hidden |-> FALSE, is_dir |-> FALSE, ext |-> "txt"]

EventPaths == {HttpFile, TextFile}

\* is_relevant_path
IsRelevantPath(path) ==
    IF path.hidden THEN FALSE
    ELSE IF path.is_dir THEN TRUE
    ELSE path.ext \in {"http", "rest", "env.json"}

NoWatcher == [some |-> FALSE, id |-> 0, watched_path |-> "none"]

WatchIds == 1..Len(channel)

RECURSIVE Buffered(_)
\* the number of events waiting in the first n channels
Buffered(n) == IF n = 0 THEN 0 ELSE Buffered(n - 1) + Len(channel[n])

\* a watcher that is never dropped
HeldForever(id) == TRUE

\* the RecommendedWatcher of watch id is owned by WATCHER or by the running
\* start_watching; once nobody owns it, it is dropped
Held(id) ==
    \/ WATCHER.some /\ WATCHER.id = id
    \/ sw_pc \in {"watch", "spawn", "store"} /\ watcher = id

Running(id) == threads[id].state = "running"

WatchFrame == UNCHANGED <<parseVars, substVars, tokenVars, oidcVars>>

\* start_watching(app, directory): stop_watching()?, then channel()
StartWatching ==
    /\ sw_pc = "idle"
    /\ Len(channel) < MaxWatches
    /\ \E d \in Directories : directory' = d
    /\ WATCHER' = NoWatcher
    /\ channel' = Append(channel, <<>>)
    /\ threads' = Append(threads, [state |-> "none", watched_dir |-> "none"])
    /\ watcher' = 0
    /\ sw_pc' = "create"
    /\ returned' = [call |-> "start_watching", result |-> "running"]
    /\ UNCHANGED <<senders, emitted, observed>>
    /\ WatchFrame

\* RecommendedWatcher::new(move |res| { tx.send(event) }, ..)
CreateWatcher ==
    /\ sw_pc = "create"
    /\ \/ /\ watcher' = Len(channel)
          /\ senders' = senders \cup {Len(channel)}
          /\ sw_pc' = "watch"
          /\ returned' = returned
       \/ /\ sw_pc' = "idle"
          /\ returned' = [call |-> "start_watching",
                          result |-> "Failed to create watcher"]
          /\ UNCHANGED <<watcher, senders>>
    /\ UNCHANGED <<WATCHER, directory, channel, threads, emitted, observed>>
    /\ WatchFrame

\* watcher.watch(Path::new(&directory), RecursiveMode::Recursive)
Watch ==
    /\ sw_pc = "watch"
    /\ \/ sw_pc' = "spawn" /\ UNCHANGED <<watcher, returned>>
       \/ /\ sw_pc' = "idle"
          /\ watcher' = 0
          /\ returned' = [call |-> "start_watching",
                          result |-> "Failed to watch directory"]
    /\ UNCHANGED <<WATCHER, directory, senders, channel, threads, emitted,
                   observed>>
    /\ WatchFrame

\* thread::spawn(move || { .. }) with watched_dir = directory.clone()
Spawn ==
    /\ sw_pc = "spawn"
    /\ threads' = [threads EXCEPT ![watcher] =
                       [state |-> "running", watched_dir |-> directory]]
    /\ sw_pc' = "store"
    /\ UNCHANGED <<WATCHER, directory, watcher, senders, channel, emitted,
                   returned, observed>>
    /\ WatchFrame

\* *guard = Some(WatcherState { _watcher: watcher, watched_path: directory });
\* Ok(())
Store ==
    /\ sw_pc = "store"
    /\ WATCHER' = [some |-> TRUE, id |-> watcher, watched_path |-> directory]
    /\ watcher' = 0
    /\ sw_pc' = "idle"
    /\ returned' = [call |-> "start_watching", result |-> "Ok"]
    /\ UNCHANGED <<directory, senders, channel, threads, emitted, observed>>
    /\ WatchFrame

\* stop_watching()
StopWatching ==
    /\ sw_pc = "idle"
    /\ WATCHER' = NoWatcher
    /\ returned' = [call |-> "stop_watching", result |-> "Ok"]
    /\ UNCHANGED <<sw_pc, directory, watcher, senders, channel, threads,
                   emitted, observed>>
    /\ WatchFrame

\* get_watched_path()
GetWatchedPath ==
    /\ sw_pc = "idle"
    /\ observed' = IF WATCHER.some THEN WATCHER.watched_path ELSE "None"
    /\ UNCHANGED <<WATCHER, sw_pc, directory, watcher, senders, channel,
                   threads, emitted, returned>>
    /\ WatchFrame

\* the watcher's callback sends an event of a watched directory; a send to
\* a dropped receiver is ignored
FileEvent(id) ==
    /\ id \in senders
    /\ ~(sw_pc = "watch" /\ watcher = id)
    /\ threads[id].state # "exited"
    /\ Buffered(Len(channel)) < MaxEvents
    /\ \E path \in EventPaths :
           channel' = [channel EXCEPT ![id] = Append(@, path)]
    /\ UNCHANGED <<WATCHER, sw_pc, directory, watcher, senders, threads,
                   emitted, returned, observed>>
    /\ WatchFrame

\* a dropped watcher shuts down and drops its callback, and tx with it
SenderDropped(id) ==
    /\ id \in senders
    /\ ~Held(id)
    /\ senders' = senders \ {id}
    /\ UNCHANGED <<WATCHER, sw_pc, directory, watcher, channel, threads,
                   emitted, returned, observed>>
    /\ WatchFrame

\* rx.recv_timeout(..) = Ok(event): emit `file-changed` for a relevant path
\* when the debounce time has passed
ThreadRecv(id) ==
    /\ Running(id)
    /\ channel[id] # <<>>
    /\ channel' = [channel EXCEPT ![id] = Tail(@)]
    /\ \E elapsed \in BOOLEAN :
           emitted' = IF IsRelevantPath(Head(channel[id])) /\ elapsed
                      THEN emitted \cup {threads[id].watched_dir}
                      ELSE emitted
    /\ UNCHANGED <<WATCHER, sw_pc, directory, watcher, senders, threads,
                   returned, observed>>
    /\ WatchFrame

\* the exit through the timeout check
ExitsOnTimeout(guard) == ~guard.some

\* rx.recv_timeout(..) = Err(Timeout): break if no watcher is registered
ThreadTimeout(id) ==
    /\ Running(id)
    /\ channel[id] = <<>>
    /\ id \in senders
    /\ threads' = IF ExitsOnTimeout(WATCHER)
                  THEN [threads EXCEPT ![id].state = "exited"]
                  ELSE threads
    /\ UNCHANGED <<WATCHER, sw_pc, directory, watcher, senders, channel,
                   emitted, returned, observed>>
    /\ WatchFrame

\* rx.recv_timeout(..) = Err(Disconnected): break
ThreadDisconnected(id) ==
    /\ Running(id)
    /\ channel[id] = <<>>
    /\ id \notin senders
    /\ threads' = [threads EXCEPT ![id].state = "exited"]
    /\ UNCHANGED <<WATCHER, sw_pc, directory, watcher, senders, channel,
                   emitted, returned, observed>>
    /\ WatchFrame

\* one turn of the loop of the event thread of watch id
ThreadStep(id) ==
    \/ ThreadRecv(id)
    \/ ThreadTimeout(id)
    \/ ThreadDisconnected(id)

NextWatch ==
    \/ StartWatching
    \/ CreateWatcher
    \/ Watch
    \/ Spawn
    \/ Store
    \/ StopWatching
    \/ GetWatchedPath
    \/ \E id \in WatchIds : FileEvent(id)
    \/ \E id \in WatchIds : SenderDropped(id)
    \/ \E id \in WatchIds : ThreadRecv(id)
    \/ \E id \in WatchIds : ThreadTimeout(id)
    \/ \E id \in WatchIds : ThreadDisconnected(id)

InitWatch ==
    /\ content = <<>> /\ pc = "idle" /\ ParserIdle /\ SubstIdle /\ SideIdle

SpecWatch == InitWatch /\ [][NextWatch]_vars

\* every running thread is scheduled, and a dropped watcher finishes its
\* shutdown
WatchFairness ==
    /\ \A id \in 1..MaxWatches : WF_vars(id \in WatchIds /\ ThreadStep(id))
    /\ \A id \in 1..MaxWatches : WF_vars(id \in WatchIds /\ SenderDropped(id))

SpecWatchLive == InitWatch /\ [][NextWatch]_vars /\ WatchFairness

----------------------------------------------------------------------------
(* parse_curl.                                                             *)

\* str::to_uppercase
to_uppercase(s) ==
    [i \in 1..Len(s) |->
        IF \E j \in 1..26 : LowerCase[j] = s[i]
        THEN UpperCase[CHOOSE j \in 1..26 : LowerCase[j] = s[i]]
        ELSE s[i]]

RECURSIVE Replace(_, _, _)
\* str::replace(from, to), from not empty
Replace(s, from, to) ==
    IF s = <<>> THEN <<>>
    ELSE IF StartsWith(s, from)
    THEN to \o Replace(SubSeq(s, Len(from) + 1, Len(s)), from, to)
    ELSE <<Head(s)>> \o Replace(Tail(s), from, to)

RECURSIVE JoinSpaces(_)
\* [String]::join(" ")
JoinSpaces(ls) ==
    IF ls = <<>> THEN <<>>
    ELSE IF Len(ls) = 1 THEN ls[1]
    ELSE ls[1] \o <<" ">> \o JoinSpaces(Tail(ls))

\* normalize_curl_input
normalize_curl_input(input) ==
    LET without_continuations ==
            Replace(Replace(Replace(input, <<"\\", "\r", "\n">>, <<" ">>),
                            <<"\\", "\n">>, <<" ">>),
                    <<"\\">>, <<" ">>)
        ls == Lines(without_continuations)
    IN JoinSpaces([i \in 1..Len(ls) |-> Trim(ls[i])])

RECURSIVE TokenizeFrom(_, _, _, _, _, _)
\* the loop of tokenize and what follows it
TokenizeFrom(input, toks, current, in_quotes, quote_char, escape_next) ==
    IF input = <<>>
    THEN IF in_quotes THEN [ok |-> FALSE, tokens |-> <<>>]
         ELSE [ok |-> TRUE,
               tokens |-> IF current # <<>> THEN Append(toks, current)
                          ELSE toks]
    ELSE LET ch == Head(input)
             rest == Tail(input)
         IN IF escape_next
            THEN TokenizeFrom(rest, toks, Append(current, ch), in_quotes,
                              quote_char, FALSE)
            ELSE IF ch = "\\" /\ in_quotes
            THEN TokenizeFrom(rest, toks, current, in_quotes, quote_char, TRUE)
            ELSE IF ch \in {"\"", "'"}
            THEN IF in_quotes /\ ch = quote_char
                 THEN TokenizeFrom(rest, toks, current, FALSE, quote_char, FALSE)
                 ELSE IF ~in_quotes
                 THEN TokenizeFrom(rest, toks, current, TRUE, ch, FALSE)
                 ELSE TokenizeFrom(rest, toks, Append(current, ch), in_quotes,
                                   quote_char, FALSE)
            ELSE IF ch = " " /\ ~in_quotes
            THEN IF current # <<>>
                 THEN TokenizeFrom(rest, Append(toks, current), <<>>, in_quotes,
                                   quote_char, FALSE)
                 ELSE TokenizeFrom(rest, toks, current, in_quotes, quote_char,
                                   FALSE)
            ELSE TokenizeFrom(rest, toks, Append(current, ch), in_quotes,
                              quote_char, FALSE)

\* tokenize
tokenize(input) == TokenizeFrom(input, <<>>, <<>>, FALSE, " ", FALSE)

\* str::splitn(2, ':')
SplitColon(s) ==
    LET I == {i \in 1..Len(s) : s[i] = ":"}
    IN IF I = {} THEN <<s>>
       ELSE <<SubSeq(s, 1, Min(I) - 1), SubSeq(s, Min(I) + 1, Len(s))>>

\* parse_header
parse_header(header) ==
    LET parts == SplitColon(header)
    IN IF Len(parts) = 2 THEN Some(<<Trim(parts[1]), Trim(parts[2])>>)
       ELSE None

\* the characters urlencoding::encode leaves alone
Unreserved == (WordChars \ {"_"}) \cup {"-", "_", ".", "~"}

\* the escapes of the other characters a token of the model can hold
PercentCode ==
    (":" :> <<"%", "3", "A">>) @@ ("/" :> <<"%", "2", "F">>)
        @@ ("@" :> <<"%", "4", "0">>) @@ (" " :> <<"%", "2", "0">>)
        @@ ("=" :> <<"%", "3", "D">>)

\* urlencoding::encode
UrlEncode(s) ==
    Flatten([i \in 1..Len(s) |->
                IF s[i] \in Unreserved THEN <<s[i]>> ELSE PercentCode[s[i]]])

CurlWord == <<"c", "u", "r", "l">>
RequestOptions == {<<"-", "X">>, <<"-", "-", "r", "e", "q", "u", "e", "s", "t">>}
HeaderOptions == {<<"-", "H">>, <<"-", "-", "h", "e", "a", "d", "e", "r">>}
DataOptions == {<<"-", "d">>, <<"-", "-", "d", "a", "t", "a">>, <<"-", "-", "d", "a", "t", "a", "-", "r", "a", "w">>}
DataBinary == <<"-", "-", "d", "a", "t", "a", "-", "b", "i", "n", "a", "r", "y">>
DataUrlencode == <<"-", "-", "d", "a", "t", "a", "-", "u", "r", "l", "e", "n", "c", "o", "d", "e">>
UserOptions == {<<"-", "u">>, <<"-", "-", "u", "s", "e", "r">>}
AgentOptions == {<<"-", "A">>, <<"-", "-", "u", "s", "e", "r", "-", "a", "g", "e", "n", "t">>}
CookieOptions == {<<"-", "b">>, <<"-", "-", "c", "o", "o", "k", "i", "e">>}
RefererOptions == {<<"-", "e">>, <<"-", "-", "r", "e", "f", "e", "r", "e", "r">>}
LocationOptions == {<<"-", "L">>, <<"-", "-", "l", "o", "c", "a", "t", "i", "o", "n">>}
InsecureOptions == {<<"-", "k">>, <<"-", "-", "i", "n", "s", "e", "c", "u", "r", "e">>}
Compressed == <<"-", "-", "c", "o", "m", "p", "r", "e", "s", "s", "e", "d">>
IgnoredOptions == {<<"-", "v">>, <<"-", "-", "v", "e", "r", "b", "o", "s", "e">>, <<"-", "s">>, <<"-", "-", "s", "i", "l", "e", "n", "t">>}
OutputOptions == {<<"-", "o">>, <<"-", "-", "o", "u", "t", "p", "u", "t">>}

MethodGet == <<"G", "E", "T">>
MethodPost == <<"P", "O", "S", "T">>

\* a data option that sees the default method
DataDefaultsToPost(cmd) ==
    IF cmd.method = MethodGet THEN [cmd EXCEPT !.method = MethodPost] ELSE cmd

RECURSIVE ParseFrom(_, _, _)
\* the while loop of parse_curl from the 1-based position i
ParseFrom(ts, i, cmd) ==
    IF i > Len(ts) THEN cmd
    ELSE
    LET token == ts[i]
        has == i + 1 <= Len(ts)
        arg == IF has THEN ts[i + 1] ELSE <<>>
    IN IF token = CurlWord THEN ParseFrom(ts, i + 1, cmd)
       ELSE IF token \in RequestOptions
       THEN ParseFrom(ts, i + 2,
                IF has THEN [cmd EXCEPT !.method = to_uppercase(arg)] ELSE cmd)
       ELSE IF token \in HeaderOptions
       THEN ParseFrom(ts, i + 2,
                IF has /\ parse_header(arg).some
                THEN [cmd EXCEPT !.headers =
                          MapInsert(@, parse_header(arg).val[1],
                                    parse_header(arg).val[2])]
                ELSE cmd)
       ELSE IF token \in DataOptions
       THEN ParseFrom(ts, i + 2,
                IF has THEN DataDefaultsToPost([cmd EXCEPT !.body = Some(arg)])
                ELSE cmd)
       ELSE IF token = DataBinary
       THEN ParseFrom(ts, i + 2,
                IF has
                THEN DataDefaultsToPost(
                         [cmd EXCEPT !.body =
                              IF StartsWith(arg, <<"@">>)
                              THEN Some(<<"<", " ">> \o Tail(arg))
                              ELSE Some(arg)])
                ELSE cmd)
       ELSE IF token = DataUrlencode
       THEN ParseFrom(ts, i + 2,
                IF has
                THEN DataDefaultsToPost(
                         [cmd EXCEPT !.body =
                              IF cmd.body.some
                              THEN Some(cmd.body.val \o <<"&">> \o UrlEncode(arg))
                              ELSE Some(UrlEncode(arg))])
                ELSE cmd)
       ELSE IF token \in UserOptions
       THEN ParseFrom(ts, i + 2,
                IF has
                THEN [cmd EXCEPT !.auth =
                          IF Len(SplitColon(arg)) = 2
                          THEN Some(SplitColon(arg))
                          ELSE Some(<<SplitColon(arg)[1], <<>>>>)]
                ELSE cmd)
       ELSE IF token \in AgentOptions
       THEN ParseFrom(ts, i + 2,
                IF has
                THEN [cmd EXCEPT !.headers = MapInsert(@, <<"U", "s", "e", "r", "-", "A", "g", "e", "n", "t">>, arg)]
                ELSE cmd)
       ELSE IF token \in CookieOptions
       THEN ParseFrom(ts, i + 2,
                IF has
                THEN [cmd EXCEPT !.headers = MapInsert(@, <<"C", "o", "o", "k", "i", "e">>, arg)]
                ELSE cmd)
       ELSE IF token \in RefererOptions
       THEN ParseFrom(ts, i + 2,
                IF has
                THEN [cmd EXCEPT !.headers = MapInsert(@, <<"R", "e", "f", "e", "r", "e", "r">>, arg)]
                ELSE cmd)
       ELSE IF token \in LocationOptions
       THEN ParseFrom(ts, i + 1,
                [cmd EXCEPT !.flags = Append(@, <<"f", "o", "l", "l", "o", "w", "-", "r", "e", "d", "i", "r", "e", "c", "t", "s">>)])
       ELSE IF token \in InsecureOptions
       THEN ParseFrom(ts, i + 1,
                [cmd EXCEPT !.flags = Append(@, <<"i", "n", "s", "e", "c", "u", "r", "e">>)])
       ELSE IF token = Compressed
       THEN ParseFrom(ts, i + 1,
                [cmd EXCEPT
                    !.flags = Append(@, <<"c", "o", "m", "p", "r", "e", "s", "s", "e", "d">>),
                    !.headers =
                        IF <<"A", "c", "c", "e", "p", "t", "-", "E", "n", "c", "o", "d", "i", "n", "g">> \in DOMAIN @ THEN @
                        ELSE MapInsert(@, <<"A", "c", "c", "e", "p", "t", "-", "E", "n", "c", "o", "d", "i", "n", "g">>, <<"g", "z", "i", "p", ",", " ", "d", "e", "f", "l", "a", "t", "e">>)])
       ELSE IF token \in IgnoredOptions THEN ParseFrom(ts, i + 1, cmd)
       ELSE IF token \in OutputOptions THEN ParseFrom(ts, i + 2, cmd)
       ELSE IF ~StartsWith(token, <<"-">>) /\ cmd.url = <<>>
       THEN ParseFrom(ts, i + 1, [cmd EXCEPT !.url = token])
       ELSE IF StartsWith(token, <<"h", "t", "t", "p", ":", "/", "/">>) \/ StartsWith(token, <<"h", "t", "t", "p", "s", ":", "/", "/">>)
       THEN ParseFrom(ts, i + 1, [cmd EXCEPT !.url = token])
       ELSE ParseFrom(ts, i + 1, cmd)

\* parse_curl: Ok(cmd) or the error
parse_curl(input) ==
    LET tokenized == tokenize(normalize_curl_input(input))
        cmd == ParseFrom(tokenized.tokens, 1, DefaultCommand)
    IN IF ~tokenized.ok
       THEN [result |-> "Unclosed quote in cURL command",
             tokens |-> <<>>, cmd |-> DefaultCommand]
       ELSE IF tokenized.tokens = <<>>
       THEN [result |-> "Empty cURL command",
             tokens |-> <<>>, cmd |-> DefaultCommand]
       ELSE IF cmd.url = <<>>
       THEN [result |-> "No URL found in cURL command",
             tokens |-> tokenized.tokens, cmd |-> DefaultCommand]
       ELSE [result |-> "Ok", tokens |-> tokenized.tokens, cmd |-> cmd]

\* the words command lines are made of
LowerGet == <<"g", "e", "t">>
LowerPut == <<"p", "u", "t">>
DataX == <<"x">>
ShortRequest == <<"-", "X">>
ShortData == <<"-", "d">>
CurlUrl == <<"h", "t", "t", "p", ":", "/", "/", "h">>

CurlTokenCatalogue ==
    {ShortRequest, LowerGet, LowerPut, ShortData, DataBinary, DataX, CurlUrl}

\* command lines that exercise the other options, quotes and continuations
OtherCommandLines ==
    {<<>>,
     <<"c", "u", "r", "l", " ", "-", "d", " ", "'", "x", " ", "y", "'", " ",
       "h", "t", "t", "p", ":", "/", "/", "h">>,
     <<"c", "u", "r", "l", " ", "-", "d", " ", "'", "x", " ", "h", "t", "t",
       "p", ":", "/", "/", "h">>,
     <<"c", "u", "r", "l", " ", "\\", "\n", " ", " ", "-", "-", "r", "e",
       "q", "u", "e", "s", "t", " ", "p", "u", "t", " ", "\\", "\n", " ",
       " ", "h", "t", "t", "p", ":", "/", "/", "h">>,
     <<"c", "u", "r", "l", " ", "-", "H", " ", "'", "A", ":", " ", "1", "'",
       " ", "-", "u", " ", "u", ":", "p", " ", "-", "A", " ", "a", " ", "-",
       "b", " ", "b", " ", "-", "e", " ", "e", " ", "h", "t", "t", "p", ":",
       "/", "/", "h">>,
     <<"c", "u", "r", "l", " ", "-", "L", " ", "-", "k", " ", "-", "-", "c",
       "o", "m", "p", "r", "e", "s", "s", "e", "d", " ", "-", "v", " ", "-",
       "s", " ", "-", "o", " ", "f", " ", "h", "t", "t", "p", ":", "/", "/",
       "h", " ", "-", "z">>,
     <<"c", "u", "r", "l", " ", "-", "-", "d", "a", "t", "a", "-", "u", "r",
       "l", "e", "n", "c", "o", "d", "e", " ", "a", "=", "x", " ", "-", "-",
       "d", "a", "t", "a", "-", "u", "r", "l", "e", "n", "c", "o", "d", "e",
       " ", "b", "=", "/", " ", "h">>,
     <<"c", "u", "r", "l", " ", "-", "-", "d", "a", "t", "a", "-", "b", "i",
       "n", "a", "r", "y", " ", "@", "f", " ", "-", "-", "u", "s", "e", "r",
       " ", "u", " ", "h", "t", "t", "p", "s", ":", "/", "/", "h">>,
     <<"c", "u", "r", "l", " ", "-", "-", "d", "a", "t", "a", " ", "x", " ",
       "-", "-", "d", "a", "t", "a", "-", "r", "a", "w", " ", "y", " ", "-",
       "-", "h", "e", "a", "d", "e", "r", " ", "A", " ", "h", "t", "t", "p",
       ":", "/", "/", "h">>}

\* "curl" and up to MaxCurlTokens words, separated by single spaces
CurlCommandLines ==
    {JoinSpaces(<<CurlWord>> \o ts) :
        ts \in BoundedSeq(CurlTokenCatalogue, MaxCurlTokens)}
        \cup OtherCommandLines

\* parse_curl(&curl_command)
ParseCurl ==
    /\ curl_result = "none"
    /\ tokens' = parse_curl(curl_command).tokens
    /\ curl_result' = parse_curl(curl_command).result
    /\ curl_cmd' = parse_curl(curl_command).cmd
    /\ UNCHANGED <<content, entry, format, pc, idx, current_request, in_body,
                   body_lines, file_variables, requests, result, calls,
                   earlier, curl_command>>
    /\ UNCHANGED <<substVars, oidcVars, watchVars>>

InitParseCurl ==
    /\ content = <<>> /\ pc = "idle" /\ ParserIdle /\ SubstIdle
    /\ OidcIdle /\ WatchIdle
    /\ curl_command \in CurlCommandLines
    /\ tokens = <<>>
    /\ curl_result = "none"

SpecParseCurl == InitParseCurl /\ [][ParseCurl]_vars

----------------------------------------------------------------------------
(* Properties.                                                             *)

Done == pc = "done"

\* the document holds header lines only (and at least one)
HeaderOnly(doc) == doc # <<>> /\ \A i \in 1..Len(doc) : doc[i] = HeaderLine

\* C1: every request of the output has a non-empty url, in both parsers and
\* at every moment of the parse; a document of header lines only, with no
\* method/URL line, yields no request.
C1_EmittedRequestsHaveUrl ==
    /\ \A i \in 1..Len(requests) : requests[i].url # <<>>
    /\ Done /\ HeaderOnly(content) => requests = <<>>

\* C1 witness: a request with a url was emitted at the separator and the
\* header-only request that followed it was dropped at the end of input.
C1_Witness ==
    /\ Done
    /\ content = <<GetA, Separator, HeaderLine>>
    /\ Len(requests) = 1
    /\ requests[1].url = <<"/", "a">>

\* C2 (as claimed): at the end of the parse every emitted request's variables
\* map holds every file-level definition the parser recorded for the
\* document, wherever the definition stands.
C2_VariablesHoldEveryDefinition ==
    Done =>
        \A i \in 1..Len(requests) :
            \A k \in DOMAIN file_variables :
                /\ k \in DOMAIN requests[i].variables
                /\ requests[i].variables[k] = file_variables[k]

\* C3: a document of the single line "<METHOD> <URL>" parsed by
\* parse_http_content yields exactly one request, with that method and url,
\* no header and no body.
C3_SingleMethodLine ==
    \A v \in Methods, u \in UrlTokens :
        Done /\ entry = "parse_http_content" /\ content = <<MethodLine(v, u)>>
        => /\ Len(requests) = 1
           /\ requests[1].method = v
           /\ requests[1].url = u
           /\ requests[1].headers = EmptyMap
           /\ requests[1].body = None

\* C3 witness: "TRACE HTTP/1.1" went through parse_http_content.
C3_Witness ==
    /\ Done
    /\ entry = "parse_http_content"
    /\ content = <<MethodLine(<<"T", "R", "A", "C", "E">>,
                              <<"H", "T", "T", "P", "/", "1", ".", "1">>)>>
    /\ Len(requests) = 1

\* C10: the parsers never fail: no step panics, the line cursor stays within
\* the document, and a finished parse has returned Ok.
C10_ParsersReturnOk ==
    /\ result \in {"none", "Ok"}
    /\ Done => result = "Ok"
    /\ idx <= Len(content)

\* C10 witness: a malformed document (an unclosed script block, stray text,
\* a header without a request) was parsed to the end.
C10_Witness ==
    /\ Done
    /\ content = <<PostOpen, Text, HeaderLine>>
    /\ result = "Ok"

----------------------------------------------------------------------------

IsSeparatorLine(l) == l \in {Separator, NamedSeparator}

\* the method and url a method/URL line of the section documents states
StatedBy(l) ==
    IF l = GetA THEN <<<<"G", "E", "T">>, <<"/", "a">>>>
    ELSE <<<<"P", "O", "S", "T">>, <<"/", "b">>>>

\* every section (the lines between two separators) holds one method/URL
\* line: no two method/URL lines are adjacent, no two separators are
\* adjacent, and the document ends with a section
Sectioned(doc) ==
    /\ doc # <<>>
    /\ ~IsSeparatorLine(doc[Len(doc)])
    /\ \A i \in 1..(Len(doc) - 1) :
           IsSeparatorLine(doc[i]) # IsSeparatorLine(doc[i + 1])

RECURSIVE SectionRequests(_)
\* what the sections state, in document order
SectionRequests(doc) ==
    IF doc = <<>> THEN <<>>
    ELSE IF IsSeparatorLine(Head(doc)) THEN SectionRequests(Tail(doc))
    ELSE <<StatedBy(Head(doc))>> \o SectionRequests(Tail(doc))

\* C4: a document of N sections delimited by ### lines, one method/URL line
\* in each, yields exactly N requests, in document order, each with the
\* method and url of its own section and nothing of another one.
C4_SeparatorIsolation ==
    Done /\ Sectioned(content) =>
        /\ Len(requests) = Len(SectionRequests(content))
        /\ \A i \in 1..Len(requests) :
               /\ <<requests[i].method, requests[i].url>>
                      = SectionRequests(content)[i]
               /\ requests[i].headers = EmptyMap
               /\ requests[i].body = None

\* C4 witness: three sections parsed by the JetBrains parser.
C4_Witness ==
    /\ Done
    /\ entry = "parse_jetbrains"
    /\ content = <<GetA, NamedSeparator, PostB, Separator, GetA>>
    /\ Len(requests) = 3

IsBlankLine(l) == Trim(l) = <<>>

RECURSIVE DropLeadingBlank(_)
DropLeadingBlank(ls) ==
    IF ls # <<>> /\ IsBlankLine(Head(ls)) THEN DropLeadingBlank(Tail(ls)) ELSE ls

RECURSIVE DropTrailingBlank(_)
DropTrailingBlank(ls) ==
    IF ls # <<>> /\ IsBlankLine(ls[Len(ls)])
    THEN DropTrailingBlank(SubSeq(ls, 1, Len(ls) - 1))
    ELSE ls

\* the body lines without their leading and trailing blank lines
WithoutBlankEnds(ls) == DropTrailingBlank(DropLeadingBlank(ls))

\* str::trim_end
TrimEnd(s) ==
    LET I == {i \in 1..Len(s) : s[i] \notin Whitespace}
    IN IF I = {} THEN <<>> ELSE SubSeq(s, 1, Max(I))

\* the lines with the indentation of the first one and the trailing
\* whitespace of the last one removed
WithoutOuterWhitespace(ls) ==
    IF ls = <<>> THEN ls
    ELSE LET a == [ls EXCEPT ![1] = TrimStart(@)]
         IN [a EXCEPT ![Len(a)] = TrimEnd(@)]

\* the lines after the method/URL line and the blank line
BodyLinesOf(doc) == SubSeq(doc, 3, Len(doc))

\* C5 (as claimed): the body of a method line, a blank line and body lines
\* is the body lines joined by newline with the leading and trailing blank
\* lines removed.
C5_BodyIsBlankLineTrimmed ==
    Done /\ content \in BodyDocs =>
        /\ Len(requests) = 1
        /\ requests[1].body.val
               = JoinLines(WithoutBlankEnds(BodyLinesOf(content)))

\* C5 (amended): the body is the body lines joined by newline with the
\* leading and trailing blank lines removed and, beyond that, without the
\* indentation of the first remaining line and without the trailing
\* whitespace of the last one; the blank line that switches to body mode is
\* not part of it.
C5_BodyIsWhitespaceTrimmed ==
    Done /\ content \in BodyDocs =>
        /\ Len(requests) = 1
        /\ requests[1].body
               = Some(JoinLines(WithoutOuterWhitespace(
                          WithoutBlankEnds(BodyLinesOf(content)))))

\* C5 witness: a body with a leading blank line, an indented line and a
\* trailing blank line.
C5_Witness ==
    /\ Done
    /\ content = <<PostX, Blank, Blank, <<" ", "y">>, Blank>>
    /\ Len(requests) = 1
    /\ requests[1].body = Some(<<"y">>)

\* the trimmed line starts with "< {%" or "> {%"
OpensScript(l) ==
    \E c \in {"<", ">"} : StartsWith(Trim(l), <<c, " ", "{", "%">>)

\* the trimmed line reads "@", an identifier of word characters and
\* hyphens, optional whitespace, "="
DefinesVariable(l) ==
    LET t == Trim(l)
    IN \E k \in 1..Len(t), w \in 0..Len(t) :
           /\ k + w + 2 <= Len(t)
           /\ t[1] = "@"
           /\ \A j \in 2..(k + 1) : t[j] \in KeyChars
           /\ \A j \in (k + 2)..(k + w + 1) : t[j] \in Whitespace
           /\ t[k + w + 2] = "="

\* the reference of detect_format
FormatReference(doc) ==
    IF \E i \in 1..Len(doc) : OpensScript(doc[i]) THEN "JetBrains"
    ELSE IF \E i \in 1..Len(doc) : DefinesVariable(doc[i]) THEN "VsCode"
    ELSE "JetBrains"

\* C6: detect_format answers as its reference does for every document, never
\* Unknown, and JetBrains when a script opener and a variable definition
\* both occur.
C6_DetectFormat ==
    /\ format \in {"none", "JetBrains", "VsCode"}
    /\ format # "none" => format = FormatReference(content)
    /\ /\ format # "none"
       /\ \E i \in 1..Len(content) : OpensScript(content[i])
       /\ \E i \in 1..Len(content) : DefinesVariable(content[i])
       => format = "JetBrains"

\* C6 witness: a variable definition followed by a script opener was
\* classified JetBrains.
C6_Witness ==
    /\ format = "JetBrains"
    /\ content = <<VarLine, PreOpen>>

----------------------------------------------------------------------------

SubstDone == sv_pc = "done"

\* the length of the placeholder "{{identifier}}" that s begins with, or 0
PlaceholderLen(s) ==
    LET N == {n \in 1..Len(s) :
                 /\ n + 4 <= Len(s)
                 /\ s[1] = "{" /\ s[2] = "{"
                 /\ \A j \in 3..(n + 2) : s[j] \in PlaceholderChars
                 /\ s[n + 3] = "}" /\ s[n + 4] = "}"}
    IN IF N = {} THEN 0 ELSE 4 + CHOOSE n \in N : TRUE

\* the identifiers of the placeholders that occur in s
PlaceholderIds(s) ==
    {SubSeq(s, p + 2, p + PlaceholderLen(From(s, p)) - 3) :
        p \in {q \in 1..Len(s) : PlaceholderLen(From(s, q)) > 0}}

RECURSIVE Substituted(_, _)
\* s with every placeholder whose identifier is a key of v replaced by its
\* value, the other placeholders and all other text as written
Substituted(s, v) ==
    IF s = <<>> THEN <<>>
    ELSE LET n == PlaceholderLen(s)
             id == SubSeq(s, 3, n - 2)
         IN IF n = 0 THEN <<Head(s)>> \o Substituted(Tail(s), v)
            ELSE (IF id \in DOMAIN v THEN v[id] ELSE SubSeq(s, 1, n))
                     \o Substituted(From(s, n + 1), v)

\* C7: substitute_variables returns the input with every {{identifier}}
\* whose identifier is a key of the table replaced by its value, every
\* other placeholder and all other text as written; when no placeholder
\* identifier is a key, the output is the input.
C7_Substitute ==
    SubstDone =>
        /\ sv_out = Substituted(sv_input, sv_vars)
        /\ PlaceholderIds(sv_input) \cap DOMAIN sv_vars = {} => sv_out = sv_input

\* C7 witness: text, a resolved and an unresolved placeholder.
C7_Witness ==
    /\ SubstDone
    /\ sv_call = 1
    /\ sv_input = <<"/", "{", "{", "a", "}", "}", "{", "{", "m", "-", ".", "}", "}">>
    /\ sv_vars = (<<"a">> :> <<"1">>)
    /\ sv_out = <<"/", "1", "{", "{", "m", "-", ".", "}", "}">>

\* C8 (as claimed): when every placeholder identifier of s is a key of v,
\* substituting the result again with v returns the result.
C8_IdempotentWhenAllKeys ==
    SubstDone /\ sv_call = 2 /\ PlaceholderIds(sv_first) \subseteq DOMAIN sv_vars
        => sv_out = sv_input

\* no "{" and no "}" in s
Braceless(s) == \A i \in 1..Len(s) : s[i] \notin {"{", "}"}

\* C8 (amended): when the result of the first call holds no placeholder
\* whose identifier is a key of v, substituting it again with v returns it;
\* this is the case whenever every placeholder of s is a key of v and neither
\* a value of v nor the text of s outside its placeholders holds a brace.
C8_IdempotentWhenResolved ==
    SubstDone /\ sv_call = 2 =>
        /\ PlaceholderIds(sv_input) \cap DOMAIN sv_vars = {} => sv_out = sv_input
        /\ /\ PlaceholderIds(sv_first) \subseteq DOMAIN sv_vars
           /\ \A k \in DOMAIN sv_vars : Braceless(sv_vars[k])
           /\ Braceless(Substituted(sv_first, [k \in PlaceholderIds(sv_first) |-> <<>>]))
           => sv_out = sv_input /\ Braceless(sv_out)

\* C8 witness: the second call ran on a result whose placeholders were all
\* resolved by the first call.
C8_Witness ==
    /\ SubstDone
    /\ sv_call = 2
    /\ sv_first = <<"{", "{", "a", "}", "}", "/", "{", "{", "b", "}", "}">>
    /\ sv_vars = (<<"a">> :> <<"1">> @@ <<"b">> :> <<"a">>)
    /\ sv_out = <<"1", "/", "a">>

\* C9: substitute_variables is one pass from left to right: every step of
\* the scan either ends the call or moves the cursor forward in the input,
\* which it never leaves and which is never rewritten, so that the call ends
\* after at most Len(input) + 1 steps for every table, self-referential ones
\* included; a step only appends to the output, and what it appends for a
\* key is the key's value verbatim, placeholders included.
C9_SinglePass ==
    [][sv_pc = "scan" =>
          /\ sv_pc' = "done" \/ (sv_pc' = "scan" /\ sv_pos' > sv_pos)
          /\ sv_pos' <= Len(sv_input) + 1
          /\ sv_input' = sv_input
          /\ StartsWith(sv_out', sv_out)
          /\ LET m == NextMatch(sv_input, sv_pos)
             IN m.matched /\ m.name \in DOMAIN sv_vars
                => EndsWith(sv_out', sv_vars[m.name])]_vars

\* C9 witness: a self-referential table; the placeholders the values
\* brought in stand in the output.
C9_Witness ==
    /\ SubstDone
    /\ sv_call = 1
    /\ sv_vars = (<<"a">> :> <<"{", "{", "a", "}", "}">>)
    /\ sv_input = <<"{", "{", "a", "}", "}", "{", "{", "a", "}", "}">>
    /\ sv_out = sv_input

----------------------------------------------------------------------------

\* the JetBrains parser is the one that ran (or runs)
RanJetbrains ==
    \/ entry = "parse_jetbrains"
    \/ entry = "parse_http_content" /\ format = "JetBrains"

\* the line of the document that states the url u
StatesUrl(l, u) ==
    \/ method_re(Trim(l)).matched /\ method_re(Trim(l)).g2 = u
    \/ IsBareUrl(Trim(l)) /\ Trim(l) = u

\* the last line of the part of the document that request i of the output
\* comes from: the line before the one the next request starts on
LastLineOf(i) ==
    IF i < Len(requests) THEN requests[i + 1].line_number - 1 ELSE Len(content)

\* C11: the output is in document order: the line numbers of the emitted
\* requests increase strictly along the output, each lies between 1 and the
\* number of lines, and each request's url was stated by a method/URL line
\* that stands at or after its line number (and before the next request).
C11_DocumentOrder ==
    /\ \A i \in 1..Len(requests) :
           /\ 1 <= requests[i].line_number
           /\ requests[i].line_number <= Len(content)
    /\ \A i \in 1..(Len(requests) - 1) :
           requests[i].line_number < requests[i + 1].line_number
    /\ Done =>
           \A i \in 1..Len(requests) :
               \E j \in requests[i].line_number..LastLineOf(i) :
                   StatesUrl(content[j], requests[i].url)

\* C11 witness: two requests, the second one started by the separator on
\* line 2 and given its url by line 3.
C11_Witness ==
    /\ Done
    /\ content = <<GetA, Separator, UrlLine>>
    /\ Len(requests) = 2
    /\ requests[1].line_number = 1
    /\ requests[2].line_number = 2
    /\ requests[2].url = <<"/", "u">>

\* the text a closed script block holds: the lines between the opener and
\* the closing line, as written, and the text before "%}" on the closing line
BlockContent(blk) ==
    LET inner == SubSeq(blk, 2, Len(blk) - 1)
        closer == Trim(blk[Len(blk)])
        before == Trim(SubSeq(closer, 1, Len(closer) - 2))
    IN JoinLines(IF before = <<>> THEN inner ELSE Append(inner, before))

\* the position of the first colon of a header line
ColonOf(l) == Min({i \in 1..Len(l) : l[i] = ":"})

\* the key of a header line, as written
KeyOf(l) == SubSeq(Trim(l), 1, ColonOf(Trim(l)) - 1)

\* the value of a header line: what follows the colon, without the
\* whitespace in front of it
ValueOf(l) == TrimStart(From(Trim(l), ColonOf(Trim(l)) + 1))

\* the header map a sequence of header lines states: for each key the value
\* of the last line with that key
HeadersOf(ls) ==
    [k \in {KeyOf(ls[i]) : i \in 1..Len(ls)} |->
        ValueOf(ls[Max({i \in 1..Len(ls) : KeyOf(ls[i]) = k})])]

\* C12: in the JetBrains parser a closed pre-request script block that
\* stands where no request is active creates the request: the method/URL
\* line and the header lines after it belong to that request, which is
\* emitted first, with the block's content as pre_script and the line number
\* of the opener.
C12_PreScriptStartsRequest ==
    Done /\ RanJetbrains /\ content \in PreDocs =>
        \A blk \in ScriptBlocks(PreOpen),
           gap \in {<<>>, <<Blank>>},
           hdrs \in {<<>>, <<HeaderLine>>, <<OtherHeader, HeaderLine>>},
           tail \in {<<>>, <<Separator, PostB>>} :
            content = blk \o gap \o <<GetA>> \o hdrs \o tail =>
                /\ Len(requests) = IF tail = <<>> THEN 1 ELSE 2
                /\ requests[1].pre_script = Some(BlockContent(blk))
                /\ requests[1].line_number = 1
                /\ requests[1].method = <<"G", "E", "T">>
                /\ requests[1].url = <<"/", "a">>
                /\ requests[1].headers = HeadersOf(hdrs)
                /\ requests[1].body = None
                /\ tail # <<>> => requests[2].pre_script = None

\* C12 witness: a block with an indented line and text before "%}", a blank
\* line, the method/URL line and two header lines.
C12_Witness ==
    /\ Done
    /\ entry = "parse_jetbrains"
    /\ content = <<PreOpen, <<" ", "y">>, CloseAfterText, Blank, GetA,
                   OtherHeader, HeaderLine>>
    /\ Len(requests) = 1
    /\ requests[1].pre_script = Some(<<" ", "y", "\n", "z">>)
    /\ DOMAIN requests[1].headers = {<<"K">>, <<"H">>}

C18_BodyKeptBeforePostScript ==
    Done /\ RanJetbrains /\ content \in PostBodyDocs =>
        \A body \in ScriptBodies, blk \in ScriptBlocks(PostOpen),
           tail \in PostBodyTails :
            content = <<PostX, Blank>> \o body \o blk \o tail =>
                /\ Len(requests) >= 1
                /\ requests[1].body = Some(Trim(JoinLines(body)))
                /\ requests[1].post_script = Some(BlockContent(blk))

\* the line at 0-based index i opens a script block that no line closes
\* before the next separator line
UnclosedOpenerAt(doc, i) ==
    LET closers == {j \in (i + 2)..Len(doc) : EndsWith(Trim(doc[j]), <<"%", "}">>)}
        seps == {j \in (i + 2)..Len(doc) : StartsWith(Trim(doc[j]), <<"#", "#", "#">>)}
    IN /\ i < Len(doc)
       /\ pre_script_re(Trim(doc[i + 1])) \/ post_script_re(Trim(doc[i + 1]))
       /\ closers = {} \/ (seps # {} /\ Min(seps) < Min(closers))

\* the JetBrains parser is about to process an unclosed opener line
AtUnclosedOpener == pc = "jetbrains" /\ UnclosedOpenerAt(content, idx)

\* C20 (as claimed): processing the opener line of an unclosed script block
\* changes nothing but the cursor: no request is created, the body buffer,
\* body mode, the file variables and the output stay as they are.
C20_UnclosedOpenerNoChange ==
    [][AtUnclosedOpener =>
          /\ idx' = idx + 1
          /\ current_request' = current_request
          /\ body_lines' = body_lines
          /\ in_body' = in_body
          /\ file_variables' = file_variables
          /\ requests' = requests]_vars

\* C20 (amended): processing the opener line of an unclosed script block
\* moves the cursor by one line and leaves body mode, the file variables and
\* the output as they are; with a request active and body mode off it
\* changes nothing else; with no request active it creates the request, all
\* fields at their defaults and line_number the opener's line; in body mode
\* it appends the line as written to the body buffer.
C20_UnclosedOpenerFallsThrough ==
    [][AtUnclosedOpener =>
          /\ idx' = idx + 1
          /\ in_body' = in_body
          /\ file_variables' = file_variables
          /\ requests' = requests
          /\ pc' = pc
          /\ current_request' =
                 (IF current_request.some THEN current_request
                  ELSE SomeRequest([NewRequest EXCEPT !.line_number = idx + 1]))
          /\ body_lines' =
                 (IF in_body THEN Append(body_lines, content[idx + 1])
                  ELSE body_lines)]_vars

\* C20 witness: the opener on line 2 of a request's header section was
\* dropped; the line after it is the next one to process.
C20_Witness ==
    /\ pc = "jetbrains"
    /\ content = <<GetA, PreOpen, Text, Separator, Close>>
    /\ idx = 2
    /\ current_request = SomeRequest([NewRequest EXCEPT
                                         !.line_number = 1,
                                         !.method = <<"G", "E", "T">>,
                                         !.url = <<"/", "a">>])
    /\ body_lines = <<>>

----------------------------------------------------------------------------

\* the document is made of header lines and at least one "GET /a" line
HeadersAndMethod(doc) ==
    /\ \A i \in 1..Len(doc) : doc[i] \in HeaderCatalogue \cup {GetA}
    /\ \E i \in 1..Len(doc) : doc[i] = GetA

IsHeaderOfCatalogue(l) == l \in HeaderCatalogue

\* C14: header lines outside body mode go into the request's header map
\* with the key as written (keys that differ in case are different keys) and
\* the value without the whitespace that follows the colon; of two lines
\* with one key the later one gives the value.  A header-like line in body
\* mode is body text and no header.
C14_HeadersAsWritten ==
    /\ Done /\ HeadersAndMethod(content) =>
           /\ Len(requests) = 1
           /\ requests[1].headers
                  = HeadersOf(SelectSeq(content, IsHeaderOfCatalogue))
    /\ \A h \in HeaderCatalogue :
           Done /\ content = <<GetA, Blank, h>> =>
               /\ Len(requests) = 1
               /\ requests[1].headers = EmptyMap
               /\ requests[1].body = Some(Trim(h))

\* C14 witness: "C-T: a", "c-t: b" and "C-T:  c " after the method/URL line
\* give two keys, the upper-case one with the later value.
C14_Witness ==
    /\ Done
    /\ content = <<GetA, HeaderUpper, HeaderLower, HeaderAgain>>
    /\ Len(requests) = 1
    /\ requests[1].headers =
           (<<"C", "-", "T">> :> <<"c">> @@ <<"c", "-", "t">> :> <<"b">>)

\* the document holds a "# @name X" line and a "GET /a" line, header lines
\* apart from them, and no separator
NamedByAnnotation(doc) ==
    /\ \A i \in 1..Len(doc) : doc[i] \in HeaderCatalogue \cup {GetA, NameLine}
    /\ \E i \in 1..Len(doc) : doc[i] = GetA
    /\ \E i \in 1..Len(doc) : doc[i] = NameLine

\* C16 (as claimed): a "# @name X" line in a request sets the request's
\* name to X.
C16_NameAnnotation ==
    Done /\ NamedByAnnotation(content) =>
        /\ Len(requests) = 1
        /\ requests[1].name = Some(<<"X">>)

\* C19 (as claimed): a document that is one bare URL line (http://,
\* https:// or /) yields one GET request with that url and no header.
C19_BareUrl ==
    \A u \in BareUrls :
        Done /\ content = <<u>> =>
            /\ Len(requests) = 1
            /\ requests[1].method = <<"G", "E", "T">>
            /\ requests[1].url = u
            /\ requests[1].headers = EmptyMap

----------------------------------------------------------------------------

----------------------------------------------------------------------------

\* C17 (as claimed): for every CurlCommand with a non-empty url,
\* parse_http_content of the text of curl_to_http yields exactly one
\* request, with the command's method and url and with every header of the
\* command (and an Authorization header when the command has auth).
C17_CurlRoundTrip ==
    Done /\ entry = "parse_http_content" /\ curl_cmd.url # <<>> =>
        /\ Len(requests) = 1
        /\ requests[1].method = curl_cmd.method
        /\ requests[1].url = curl_cmd.url
        /\ \A k \in DOMAIN curl_cmd.headers :
               /\ k \in DOMAIN requests[1].headers
               /\ requests[1].headers[k] = curl_cmd.headers[k]
        /\ curl_cmd.auth.some =>
               <<"A", "u", "t", "h", "o", "r", "i", "z", "a", "t", "i", "o", "n">>
                   \in DOMAIN requests[1].headers

----------------------------------------------------------------------------

\* the scripts of the request in progress (none when there is no request)
ScriptsOf(cur) ==
    IF cur.some THEN <<cur.req.pre_script, cur.req.post_script>>
    ELSE <<None, None>>

IsPlainHeader(l) == l = HeaderLine

\* C21: in the JetBrains parser an unclosed script block captures nothing:
\* the step on its opener leaves the scripts of the request in progress and
\* the output as they were and moves the cursor by exactly one line; the
\* lines after the opener then go through the ordinary rules (a header line
\* is a header, body lines are body text), and the separator that ended the
\* search still finalizes the request, so that no emitted request has a
\* script.
C21_UnclosedCapturesNothing ==
    [][/\ AtUnclosedOpener =>
              /\ idx' = idx + 1
              /\ requests' = requests
              /\ ScriptsOf(current_request') = ScriptsOf(current_request)
       /\ pc' = "done" /\ RanJetbrains /\ content \in UnclosedDocs =>
              \A before \in {<<>>, <<GetA>>, <<GetA, Blank>>, <<GetA, Blank, Text>>},
                 opener \in {PreOpen, PostOpen, PreTight},
                 inner \in BoundedSeq({Text, HeaderLine}, MaxScriptLines),
                 after \in {<<>>, <<Separator, PostB>>, <<Separator, Close>>} :
                  content = before \o <<opener>> \o inner \o after =>
                      /\ \A i \in 1..Len(requests') :
                             /\ requests'[i].pre_script = None
                             /\ requests'[i].post_script = None
                      /\ Len(requests') =
                             (IF before = <<>> THEN 0 ELSE 1)
                                 + (IF after = <<Separator, PostB>> THEN 1 ELSE 0)
                      /\ before # <<>> =>
                             /\ requests'[1].url = <<"/", "a">>
                             /\ requests'[1].headers =
                                    (IF before = <<GetA>>
                                     THEN HeadersOf(SelectSeq(inner, IsPlainHeader))
                                     ELSE EmptyMap)
                             /\ requests'[1].body =
                                    (IF Len(before) >= 2
                                     THEN Some(Trim(JoinLines(
                                              SubSeq(before, 3, Len(before))
                                                  \o <<opener>> \o inner)))
                                     ELSE None)
                      /\ after = <<Separator, PostB>> =>
                             requests'[Len(requests')].url = <<"/", "b">>]_vars

\* C21 witness: the header line after an unclosed post-request opener became
\* a header, and the separator finalized the request.
C21_Witness ==
    /\ Done
    /\ entry = "parse_jetbrains"
    /\ content = <<GetA, PostOpen, HeaderLine, Separator, PostB>>
    /\ Len(requests) = 2
    /\ requests[1].headers = (<<"H">> :> <<"v">>)
    /\ requests[1].post_script = None

\* the line at 0-based index i begins a post-request script block, i.e. one
\* that a later line closes before any separator
BeginsPostBlock(doc, i) ==
    /\ i < Len(doc)
    /\ post_script_re(Trim(doc[i + 1]))
    /\ ~UnclosedOpenerAt(doc, i)

\* the JetBrains parser is about to process, in body mode, a line that is
\* neither a separator nor the beginning of a post-request script block
AtBodyLine ==
    /\ pc = "jetbrains"
    /\ idx < Len(content)
    /\ in_body
    /\ current_request.some
    /\ ~separator_re(Trim(content[idx + 1])).matched
    /\ ~BeginsPostBlock(content, idx)

\* C22 (as claimed): in body mode of the JetBrains parser every line that is
\* no separator and begins no post-request script block is appended as
\* written to the body buffer and changes nothing else: not the request in
\* progress (pre_script, metadata, method, url, headers), not the file
\* variables, not the output, not body mode.
C22_BodyModeAppendsOnly ==
    [][AtBodyLine =>
          /\ body_lines' = Append(body_lines, content[idx + 1])
          /\ current_request' = current_request
          /\ file_variables' = file_variables
          /\ requests' = requests
          /\ in_body' = in_body
          /\ idx' = idx + 1]_vars

\* the JetBrains parser is about to process a line that is no separator while
\* the request in progress already has its post-request script
AfterPostScript ==
    /\ pc = "jetbrains"
    /\ idx < Len(content)
    /\ current_request.some
    /\ current_request.req.post_script.some
    /\ ~separator_re(Trim(content[idx + 1])).matched

\* C23 (as claimed): once the JetBrains parser has captured a post-request
\* script for a request, no later line before the next separator or the end
\* of input is added to that request's body: the body buffer stays as it is
\* and the emitted body is what it would have been right after the script.
C23_NoBodyAfterPostScript ==
    [][AfterPostScript => body_lines' = body_lines]_vars

\* the number of separator lines among the first n lines of a document
SepCount(doc, n) ==
    Cardinality({i \in 1..n : separator_re(Trim(doc[i])).matched})

\* a parser is in its loop or at its end
ParserRunning == pc \in {"jetbrains", "vscode"}

\* a parser is running or has returned
InParse == pc \in {"jetbrains", "vscode", "done"}

\* the step being taken processes a separator line or the end of the input
AtSeparatorOrEnd ==
    \/ idx >= Len(content)
    \/ separator_re(Trim(content[idx + 1])).matched

\* the line numbers of the emitted requests increase, and the request in
\* progress, if there is one, comes after all of them
LineNumbersIncrease ==
    /\ \A i, j \in 1..Len(requests) :
           i < j => requests[i].line_number < requests[j].line_number
    /\ current_request.some =>
           \A i \in 1..Len(requests) :
               requests[i].line_number < current_request.req.line_number

\* the step leaves the output alone, or it processes a separator line or the
\* end of the input and appends one request
OutputKeptOrExtended ==
    \/ requests' = requests
    \/ /\ AtSeparatorOrEnd
       /\ Len(requests') = Len(requests) + 1
       /\ SubSeq(requests', 1, Len(requests)) = requests

\* C24: during a parse (either parser) there is at most one request in
\* progress; the output changes only while a separator line or the end of the
\* input is processed, and then by exactly one request appended at the end,
\* so it never shrinks and an emitted request is never modified; no request
\* is emitted twice (the line numbers increase strictly); and the number of
\* emitted requests is at most the number of separator lines processed, plus
\* one once the end of the input has been processed.
C24_OneRequestInProgress ==
    /\ [](InParse =>
            /\ LineNumbersIncrease
            /\ Len(requests) <= SepCount(content, idx) + (IF Done THEN 1 ELSE 0)
            /\ Done => ~current_request.some)
    /\ [][ParserRunning => OutputKeptOrExtended]_vars

\* C24 witness: three requests for two separator lines, each emitted where
\* its section ended
C24_Witness ==
    /\ Done
    /\ content = <<GetA, Separator, PostB, Separator, GetA>>
    /\ Len(requests) = 3
    /\ requests[1].line_number = 1
    /\ requests[2].line_number = 2
    /\ requests[3].line_number = 4
    /\ requests[2].url = <<"/", "b">>

\* the VS Code parser is the one that ran (or runs)
RanVscode ==
    \/ entry = "parse_vscode"
    \/ entry = "parse_http_content" /\ format = "VsCode"

\* the document with one more line, a bare separator
WithSeparator(doc) == Append(doc, Separator)

\* C25: the end of the input finalizes the request in progress as a separator
\* does: for either parser, the requests returned for a document equal the
\* requests the same parser returns for the document followed by one bare
\* `###` line (bodies, variables, scripts, names and line numbers included).
C25_EndLikeSeparator ==
    Done /\ result = "Ok" =>
        /\ RanJetbrains => requests = parse_jetbrains(WithSeparator(content))
        /\ RanVscode => requests = parse_vscode(WithSeparator(content))

\* C25 witness: a request whose body is open at the end of the input was
\* returned with that body, as it is with `###` after it
C25_Witness ==
    /\ Done
    /\ RanJetbrains
    /\ content = <<PostB, Blank, Text>>
    /\ Len(requests) = 1
    /\ requests[1].body = Some(Text)
    /\ requests = parse_jetbrains(<<PostB, Blank, Text, Separator>>)

\* the line at 0-based index i opens a script block that is captured
CapturesBlockAt(doc, i) ==
    /\ i < Len(doc)
    /\ pre_script_re(Trim(doc[i + 1])) \/ post_script_re(Trim(doc[i + 1]))
    /\ ~UnclosedOpenerAt(doc, i)

\* the number of the line that closes the block opened at 0-based index i,
\* which is the 0-based index of the line after it
ClosingLine(doc, i) ==
    Min({j \in (i + 2)..Len(doc) : EndsWith(Trim(doc[j]), <<"%", "}">>)})

\* one iteration of the loop moves the cursor forward, to the line after the
\* closing line of a captured block and by one line otherwise, and not past
\* the end; the step after the loop leaves the cursor and returns
CursorStep ==
    IF idx < Len(content)
    THEN /\ idx' > idx
         /\ idx' <= Len(content)
         /\ idx' = IF CapturesBlockAt(content, idx)
                   THEN ClosingLine(content, idx)
                   ELSE idx + 1
         /\ CapturesBlockAt(content, idx) => idx' > idx + 1
    ELSE idx' = idx /\ pc' = "done"

\* C26: parse_jetbrains terminates: every iteration of its loop moves the
\* line cursor strictly forward (by one line for an ordinary line and for an
\* opener whose block is not captured, to the line after the closing `%}`
\* line for a captured block, which lies beyond the opener), never past the
\* number of lines, and once the cursor has reached the end the parser
\* returns; so the distance to the end decreases with every step and no line
\* is classified twice.
C26_CursorAdvances == [][pc = "jetbrains" => CursorStep]_vars

\* C26 witness: the cursor stands behind a captured three-line block that it
\* jumped over in one iteration
C26_Witness ==
    /\ pc = "jetbrains"
    /\ idx = 3
    /\ SubSeq(content, 1, 3) = <<PreOpen, Text, Close>>
    /\ Len(content) > 3
    /\ current_request.some
    /\ current_request.req.pre_script = Some(Text)
    /\ current_request.req.line_number = 1

\* the step captures the block opened on the line under the cursor with the
\* script text made of the lines between opener and closing line, as
\* written, and the trimmed text before the `%}` that ends the closing line,
\* and resumes on the line after the closing line
CapturesBlockContent ==
    LET e == ClosingLine(content, idx)
        blk == SubSeq(content, idx + 1, e)
    IN /\ idx' = e
       /\ current_request'.some
       /\ IF pre_script_re(Trim(content[idx + 1]))
          THEN current_request'.req.pre_script = Some(BlockContent(blk))
          ELSE current_request.some =>
                   current_request'.req.post_script = Some(BlockContent(blk))

\* the JetBrains parser is about to process the opener of a closed block
AtClosedOpener ==
    /\ pc = "jetbrains"
    /\ CapturesBlockAt(content, idx)
    /\ pre_script_re(Trim(content[idx + 1])) \/ current_request.some

\* C27 (as claimed): for an opener line followed by a closing line (the first
\* later line whose trimmed text ends with `%}`), the captured script is the
\* lines strictly between the two, as written, joined by newline, followed
\* by the trimmed text that precedes the `%}` at the end of the closing line
\* when that text is non-empty; the opener line contributes nothing and is
\* not the closing line; the parser resumes on the line after the closing
\* line.
C27_ScriptBlockContent == [][AtClosedOpener => CapturesBlockContent]_vars

\* the trimmed line t matches none of the line patterns (separator, script
\* opener, metadata, comment, variable definition, method line, header)
NoPattern(t) ==
    /\ ~separator_re(t).matched
    /\ ~pre_script_re(t)
    /\ ~post_script_re(t)
    /\ ~metadata_re(t).matched
    /\ ~comment_re(t)
    /\ ~vscode_var_re(t).matched
    /\ ~method_re(t).matched
    /\ ~header_re(t).matched

\* a parser is about to process a line that no rule applies to: it matches
\* no pattern, the parser is not in body mode, the line is not a blank line
\* before the first request or after the url, and it is not a bare URL for a
\* request without url
AtIgnoredLine ==
    /\ ParserRunning
    /\ idx < Len(content)
    /\ ~in_body
    /\ LET t == Trim(content[idx + 1])
           no_url == ~current_request.some \/ current_request.req.url = <<>>
       IN /\ NoPattern(t)
          /\ t = <<>> => current_request.some /\ no_url
          /\ IsBareUrl(t) => ~no_url

\* the parser's state apart from the cursor and the request in progress
RestUnchanged ==
    /\ idx' = idx + 1
    /\ UNCHANGED <<in_body, body_lines, file_variables, requests>>

\* C28 (as claimed): in both parsers a line that matches none of the
\* classification rules is ignored with no state change: whether there is a
\* current request, its line_number and fields, body mode, the body buffer,
\* the file variables and the output are the same after the line as before.
C28_IgnoredLineNoChange ==
    [][AtIgnoredLine => RestUnchanged /\ current_request' = current_request]_vars

\* C28 (amended): in both parsers a line that matches none of the
\* classification rules changes neither body mode, the body buffer, the file
\* variables nor the output; with a request in progress it leaves that
\* request as it is, and with none it creates the request, with default
\* fields and the line's number as line_number.
C28_IgnoredLineStartsRequest ==
    [][AtIgnoredLine =>
          /\ RestUnchanged
          /\ current_request' =
                 IF current_request.some THEN current_request
                 ELSE SomeRequest([NewRequest EXCEPT !.line_number = idx + 1])]_vars

\* C28 witness: free text on line 1 created the request that the method line
\* below it filled in, and the lower-case verb on line 3 changed nothing
C28_Witness ==
    /\ Done
    /\ content = <<Text, GetA, LowerVerb>>
    /\ Len(requests) = 1
    /\ requests[1].line_number = 1
    /\ requests[1].url = <<"/", "a">>
    /\ requests[1].headers = EmptyMap
    /\ requests[1].body = None

\* a document of the grammar the two parsers share: no script opener line, no
\* `# @key value` annotation, no `@name = value` definition
CommonGrammar(doc) ==
    \A i \in 1..Len(doc) :
        LET t == Trim(doc[i])
        IN /\ ~pre_script_re(t)
           /\ ~post_script_re(t)
           /\ ~metadata_re(t).matched
           /\ ~vscode_var_re(t).matched

\* what parse_jetbrains returns for the document of the state
JetbrainsResult ==
    IF RanJetbrains THEN requests ELSE parse_jetbrains(content)

\* what parse_vscode returns for the document of the state
VscodeResult ==
    IF RanVscode THEN requests ELSE parse_vscode(content)

\* a comment line that is no separator
IsCommentLine(l) ==
    comment_re(Trim(l)) /\ ~separator_re(Trim(l)).matched

\* the lines of the document that are not blank
NonBlank(doc) == {i \in 1..Len(doc) : Trim(doc[i]) # <<>>}

\* the first line that is not blank is a comment
LeadingComment(doc) ==
    NonBlank(doc) # {} /\ IsCommentLine(doc[Min(NonBlank(doc))])

\* the lines that are neither blank nor comments
ContentLines(doc) == {i \in NonBlank(doc) : ~IsCommentLine(doc[i])}

\* the two requests are equal in every field but line_number
SameButLine(a, b) ==
    [a EXCEPT !.line_number = 0] = [b EXCEPT !.line_number = 0]

\* C29 (as claimed): for every document without script opener, annotation
\* and variable definition, parse_jetbrains and parse_vscode return equal
\* request sequences (count, order, name, method, url, http_version, headers,
\* body and line_number).
C29_ParsersAgree ==
    Done /\ result = "Ok" /\ CommonGrammar(content) =>
        JetbrainsResult = VscodeResult

\* C29 (amended): for every such document the two parsers return the same
\* number of requests, in the same order, equal in name, method, url,
\* http_version, headers and body, and equal in line_number except for a
\* first request that starts behind leading comment lines: parse_jetbrains
\* gives it the line of the first comment, parse_vscode the first line that
\* is neither blank nor a comment.
C29_ParsersAgreeButLeadingComment ==
    Done /\ result = "Ok" /\ CommonGrammar(content) =>
        LET jb == JetbrainsResult
            vs == VscodeResult
        IN /\ Len(jb) = Len(vs)
           /\ \A i \in 1..Len(jb) :
                  /\ SameButLine(jb[i], vs[i])
                  /\ \/ jb[i].line_number = vs[i].line_number
                     \/ /\ i = 1
                        /\ LeadingComment(content)
                        /\ jb[i].line_number = Min(NonBlank(content))
                        /\ vs[i].line_number = Min(ContentLines(content))

\* C29 witness: behind a comment the two parsers returned the same request,
\* parse_jetbrains from line 1 and parse_vscode from line 2; without the
\* comment they return the same sequence
C29_Witness ==
    /\ Done
    /\ RanJetbrains
    /\ content = <<SlashComment, GetA, HeaderLine>>
    /\ Len(requests) = 1
    /\ requests[1].line_number = 1
    /\ parse_vscode(content)[1].line_number = 2
    /\ SameButLine(requests[1], parse_vscode(content)[1])
    /\ parse_jetbrains(<<GetA, HeaderLine>>) = parse_vscode(<<GetA, HeaderLine>>)

\* parse_jetbrains captures a script from the document: a request it returns
\* has a pre- or post-request script
CapturesScript(doc) ==
    \E i \in 1..Len(parse_jetbrains(doc)) :
        \/ parse_jetbrains(doc)[i].pre_script.some
        \/ parse_jetbrains(doc)[i].post_script.some

\* C30 (as claimed): detector and JetBrains parser agree on what a script
\* opener is: for every document from which parse_jetbrains captures a pre-
\* or post-request script, detect_format returns JetBrains, so that
\* parse_http_content hands the document to parse_jetbrains and the request
\* it returns has the script.
C30_DetectorKnowsOpeners ==
    entry = "parse_http_content" /\ CapturesScript(content) =>
        /\ format = "JetBrains"
        /\ Done => requests = parse_jetbrains(content)

\* the VS Code parser is about to process a variable definition line
AtVsDefinition ==
    /\ pc = "vscode"
    /\ idx < Len(content)
    /\ vscode_var_re(Trim(content[idx + 1])).matched

\* the step records the definition of the line under the cursor in the
\* variable table, replacing an earlier value of the name, and does nothing
\* else
RecordsDefinition ==
    LET vd == vscode_var_re(Trim(content[idx + 1]))
    IN /\ DOMAIN file_variables' = (DOMAIN file_variables) \cup {vd.g1}
       /\ file_variables'[vd.g1] = vd.g2
       /\ \A k \in (DOMAIN file_variables) \ {vd.g1} :
              file_variables'[k] = file_variables[k]
       /\ idx' = idx + 1
       /\ UNCHANGED <<current_request, in_body, body_lines, requests>>

\* C31: in the VS Code parser a `@name = value` line is recorded in the
\* document-wide variable table wherever it occurs (before any request, in a
\* header section, in body mode); it never creates a request and is never
\* appended to a body; a later definition of a name replaces the earlier
\* value.
C31_VsDefinitionRecorded == [][AtVsDefinition => RecordsDefinition]_vars

\* C31 witness: two definitions of v in the body section of a request; the
\* request has the later value and no body
C31_Witness ==
    /\ Done
    /\ RanVscode
    /\ content = <<GetA, Blank, VarLine, VarAgain>>
    /\ Len(requests) = 1
    /\ DOMAIN requests[1].variables = {<<"v">>}
    /\ requests[1].variables[<<"v">>] = <<"2">>
    /\ requests[1].body = None

\* the VS Code parser is about to process a comment line (`#` or `//` at the
\* start, no separator, no variable definition)
AtVsComment ==
    /\ pc = "vscode"
    /\ idx < Len(content)
    /\ IsCommentLine(content[idx + 1])
    /\ ~vscode_var_re(Trim(content[idx + 1])).matched

\* the step drops the line, or appends it to the body buffer in body mode
DropsOrAppends ==
    /\ idx' = idx + 1
    /\ UNCHANGED <<current_request, in_body, file_variables, requests>>
    /\ body_lines' = IF in_body THEN Append(body_lines, content[idx + 1])
                     ELSE body_lines

AtJbHashLine ==
    /\ pc = "jetbrains"
    /\ idx < Len(content)
    /\ ~in_body
    /\ StartsWith(Trim(content[idx + 1]), <<"#">>)
    /\ ~separator_re(Trim(content[idx + 1])).matched

\* the request the line is attached to: the active one, or the one the line
\* creates
RequestAt(cur, line_no) ==
    IF cur.some THEN cur.req ELSE [NewRequest EXCEPT !.line_number = line_no]

\* the step on a `#` line: an annotation adds key -> value to the metadata
\* of the request, replacing an earlier value of the key, any other `#` line
\* adds nothing; no other field, body mode, the body buffer, the variables
\* and the output do not change
AnnotationStep ==
    LET md == metadata_re(Trim(content[idx + 1]))
        before == RequestAt(current_request, idx + 1)
        after == current_request'.req
    IN /\ current_request'.some
       /\ [after EXCEPT !.metadata = EmptyMap]
              = [before EXCEPT !.metadata = EmptyMap]
       /\ IF md.matched
          THEN /\ DOMAIN after.metadata = (DOMAIN before.metadata) \cup {md.g1}
               /\ after.metadata[md.g1] = md.g2
               /\ \A k \in (DOMAIN before.metadata) \ {md.g1} :
                      after.metadata[k] = before.metadata[k]
          ELSE after.metadata = before.metadata
       /\ idx' = idx + 1
       /\ UNCHANGED <<in_body, body_lines, file_variables, requests>>

NameOn(l) ==
    LET rest == Trim(From(Trim(l), 4))
    IN IF rest # <<>> THEN [some |-> TRUE, val |-> rest]
       ELSE [some |-> FALSE, val |-> <<>>]

\* the line is a separator
MatchesSeparator(l) == separator_re(Trim(l)).matched

\* a parser is about to process a separator line
AtSeparator ==
    /\ ParserRunning
    /\ idx < Len(content)
    /\ MatchesSeparator(content[idx + 1])

\* the step starts a request that has the separator's name and line number
\* and is otherwise new
StartsNamedRequest ==
    /\ current_request'.some
    /\ current_request'.req =
           [NewRequest EXCEPT !.line_number = idx + 1,
                              !.name = NameOn(content[idx + 1])]

\* the request is named by the separator on its first line, and has no name
\* when its first line is no separator
NamedByItsLine(r) ==
    /\ r.line_number \in 1..Len(content)
    /\ r.name = IF MatchesSeparator(content[r.line_number])
                THEN NameOn(content[r.line_number])
                ELSE [some |-> FALSE, val |-> <<>>]

EmitsBody ==
    /\ ParserRunning
    /\ AtSeparatorOrEnd
    /\ in_body
    /\ body_lines # <<>>
    /\ Len(requests') = Len(requests) + 1

\* the body of the request the step emits
EmittedBody == requests'[Len(requests')].body.val

\* C35 (as claimed): the body of an emitted request is the captured body
\* lines joined by newline with only the leading and trailing blank lines
\* removed; the indentation of the first non-blank line and the trailing
\* spaces of the last non-blank line are preserved, interior lines are
\* unchanged.
C35_BodyKeepsOuterWhitespace ==
    [][EmitsBody =>
          EmittedBody = JoinLines(WithoutBlankEnds(body_lines))]_vars

\* C35 (amended): the body of an emitted request is the captured body lines
\* joined by newline with the leading and trailing whitespace removed: the
\* leading and trailing blank lines and also the indentation of the first
\* non-blank line and the trailing spaces of the last non-blank line;
\* everything between (interior lines, the indentation of later lines) is
\* unchanged.
C35_BodyLosesOuterWhitespace ==
    [][EmitsBody =>
          EmittedBody = JoinLines(WithoutOuterWhitespace(
                                      WithoutBlankEnds(body_lines)))]_vars

\* C35 witness: three body lines; the first lost its indentation, the second
\* kept it, the last lost its trailing space
C35_Witness ==
    /\ Done
    /\ content = <<PostX, Blank, <<" ", "y">>, <<" ", "y">>, <<"z", " ">>>>
    /\ Len(requests) = 1
    /\ requests[1].body = Some(<<"y", "\n", " ", "y", "\n", "z">>)

\* C36 (as claimed): for both parsers the body of an emitted request is
\* absent or a non-empty string; a request whose body section holds only
\* blank or whitespace-only lines is emitted with body absent.
C36_BodyAbsentOrNonEmpty ==
    InParse =>
        \A i \in 1..Len(requests) :
            requests[i].body.some => requests[i].body.val # <<>>

\* the callback request carried a `state` parameter equal to expected
CarriedState(l, expected) ==
    \E i \in 1..Len(l.query) :
        l.query[i].key = "state" /\ l.query[i].value = expected

\* C37 (as claimed): start_callback_server returns Ok(result) only if the
\* callback request carried a `state` query parameter equal to
\* expected_state; a callback with a different or a missing state makes it
\* return an error, so that oidc_wait_for_callback returns no authorization
\* code from such a callback.
C37_CallbackStateChecked ==
    /\ server_result.ok => CarriedState(request_line, expected_state)
    /\ wait_result.ok => CarriedState(request_line, expected_state)

\* C38 (as claimed): once start_watching(d) has returned Ok, and until the
\* next stop_watching or start_watching call, the event thread spawned for
\* d is running, under every interleaving of start_watching with that
\* thread.
C38_ThreadRunsWhileWatching ==
    (sw_pc = "idle" /\ WATCHER.some) => Running(WATCHER.id)

\* the thread of watch id runs although its watch was stopped or replaced
StaleThread(id) ==
    /\ id \in WatchIds
    /\ threads[id].state = "running"
    /\ ~(WATCHER.some /\ WATCHER.id = id)
    /\ ~(sw_pc \in {"watch", "spawn", "store"} /\ watcher = id)

Exited(id) == id \in WatchIds /\ threads[id].state = "exited"

\* get_watched_path, called after stop_watching has returned and before
\* the next start_watching, returns None
NoneAfterStop ==
    (returned.call = "stop_watching" /\ GetWatchedPath) => observed' = "None"

\* at most one watcher is owned, by WATCHER or by the running start_watching
OneWatcherHeld ==
    ~(WATCHER.some /\ sw_pc \in {"watch", "spawn", "store"} /\ watcher # 0)

\* C39: after stop_watching returns, get_watched_path returns None until
\* the next start_watching; the thread of a stopped or replaced watch
\* eventually terminates; never are two watchers held.
C39_StoppedWatchEnds ==
    /\ []OneWatcherHeld
    /\ [][NoneAfterStop]_vars
    /\ \A id \in 1..MaxWatches : StaleThread(id) ~> Exited(id)

\* the replaced watch's thread has terminated while the next watch is
\* active, then that one was stopped and get_watched_path returned None
C39_Witness ==
    /\ Len(threads) = 2
    /\ threads[1].state = "exited"
    /\ threads[1].watched_dir = "d1"
    /\ returned.call = "stop_watching"
    /\ observed = "None"
    /\ emitted = {"d1"}

\* the options that take the next word as their argument
TakesArgument ==
    RequestOptions \cup HeaderOptions \cup DataOptions
        \cup {DataBinary, DataUrlencode} \cup UserOptions \cup AgentOptions
        \cup CookieOptions \cup RefererOptions \cup OutputOptions

RECURSIVE MethodAsked(_, _, _, _)
\* the method a command line asks for, read option by option from the
\* 1-based position i: the argument of the last -X/--request upper-cased;
\* without one, POST if a data option has an argument, else GET
MethodAsked(ts, i, asked, data) ==
    IF i > Len(ts)
    THEN IF asked.some THEN to_uppercase(asked.val)
         ELSE IF data THEN MethodPost
         ELSE MethodGet
    ELSE IF ts[i] \notin TakesArgument THEN MethodAsked(ts, i + 1, asked, data)
    ELSE IF i = Len(ts) THEN MethodAsked(ts, i + 1, asked, data)
    ELSE IF ts[i] \in RequestOptions
    THEN MethodAsked(ts, i + 2, Some(ts[i + 1]), data)
    ELSE IF ts[i] \in DataOptions \cup {DataBinary, DataUrlencode}
    THEN MethodAsked(ts, i + 2, asked, TRUE)
    ELSE MethodAsked(ts, i + 2, asked, data)

\* C40 (as claimed): a data option makes the method POST only when no
\* method was specified: with -X/--request M the method of the parsed
\* command is M upper-cased, whether the data option stands before or
\* after it; without -X and with a data option it is POST; otherwise GET.
C40_MethodAsIs ==
    curl_result = "Ok" => curl_cmd.method = MethodAsked(tokens, 1, None, FALSE)

====
